---- MODULE Spec2Model ----
(***************************************************************************)
(* Model of the self-correcting layout generation loop                     *)
(* (app/services/generation_pipeline.py) and of the provider call wrapper  *)
(* (app/integrations/layout_generator.py).                                 *)
(***************************************************************************)
EXTENDS Integers, Sequences, FiniteSets, TLC

\* ---------------------------------------------------------------- bounds
MaxIterations == 3

MaxRetries == 3
MaxBaseDelay == 2
MaxDelayCap == 3

MaxRequested == 3
MaxPriorViolations == 2
MaxPriorCandidates == 2
MaxLimit == 3

MaxRooms == 2
MaxFixtures == 2

\* ------------------------------------------------------ program constants
GENERATION_PARALLEL_CANDIDATES == 2
GENERATION_MAX_WORKERS == 4
GENERATION_CANDIDATE_MIN == 1
GENERATION_CANDIDATE_MAX == 4

\* Optional values: None is the empty tuple, a present value x is <<x>>
None == <<>>
Some(x) == <<x>>
ValueOf(opt) == opt[1]

VARIABLES
    max_iterations, parallel_candidates, max_workers,
    pc, iteration, current_candidates, current_prompt, candidate_prompts,
    prior_constraint_result, prior_candidate_errors,
    constraint_history, last_snapped_layout,
    futures, candidate_outcomes, candidate_errors,
    selected, result, raised,
    generate_calls, selected_log, dispatch_log, collect_log

orchVars == <<max_iterations, parallel_candidates, max_workers,
              pc, iteration, current_candidates, current_prompt,
              candidate_prompts, prior_constraint_result,
              prior_candidate_errors, constraint_history,
              last_snapped_layout, futures, candidate_outcomes,
              candidate_errors, selected, result, raised,
              generate_calls, selected_log, dispatch_log, collect_log>>

\* state of one _call_gemini_with_retry invocation
VARIABLES
    max_retries, base_delay, max_delay, futures_timeout_is_builtin,
    r_pc, attempt, last_exc, svc, svc_exc, future_outcome,
    sleeps, r_result, service_calls, attempt_log

retryVars == <<max_retries, base_delay, max_delay,
               futures_timeout_is_builtin,
               r_pc, attempt, last_exc, svc, svc_exc, future_outcome,
               sleeps, r_result, service_calls, attempt_log>>

\* arguments and return value of one _compute_adaptive_candidates call
VARIABLES
    fo_pc, fo_requested, fo_prior_result, fo_prior_errors, fo_prior_total,
    fo_min, fo_max, fo_return

fanoutVars == <<fo_pc, fo_requested, fo_prior_result, fo_prior_errors,
                fo_prior_total, fo_min, fo_max, fo_return>>

\* argument and return value of one validate_layout call
VARIABLES vl_pc, vl_layout, vl_result

validateVars == <<vl_pc, vl_layout, vl_result>>

\* arguments and return values of snap_layout_to_grid, applied once and
\* then again to its own result
VARIABLES sn_pc, sn_layout, sn_grid, sn_once, sn_twice

snapVars == <<sn_pc, sn_layout, sn_grid, sn_once, sn_twice>>

\* the async_jobs table (a job's id is its index), the run_job calls being
\* followed, and the number of repository calls made outside run_job
VARIABLES jobs, runs, repository_calls

jobVars == <<jobs, runs, repository_calls>>

vars == <<orchVars, retryVars, fanoutVars, validateVars, snapVars, jobVars>>

\* what an orchestrator step leaves alone, and what a retry step leaves alone
nonOrchVars == <<retryVars, fanoutVars, validateVars, snapVars, jobVars>>
nonRetryVars == <<orchVars, fanoutVars, validateVars, snapVars, jobVars>>
nonFanoutVars == <<orchVars, retryVars, validateVars, snapVars, jobVars>>
nonValidateVars == <<orchVars, retryVars, fanoutVars, snapVars, jobVars>>
nonSnapVars == <<orchVars, retryVars, fanoutVars, validateVars, jobVars>>
nonJobVars == <<orchVars, retryVars, fanoutVars, validateVars, snapVars>>

\* ------------------------------------------------------------ pure helpers
Max2(a, b) == IF a >= b THEN a ELSE b
Min2(a, b) == IF a <= b THEN a ELSE b

Severities == {"error", "warning"}

RECURSIVE SumSeq(_)
SumSeq(q) == IF q = <<>> THEN 0 ELSE Head(q) + SumSeq(Tail(q))

RECURSIVE SeqsUpTo(_, _)
SeqsUpTo(S, n) ==
    IF n = 0 THEN {<<>>}
    ELSE LET shorter == SeqsUpTo(S, n - 1)
         IN shorter \cup {Append(s, x) : s \in shorter, x \in S}

RECURSIVE CountSeverity(_, _)
CountSeverity(violations, sev) ==
    IF violations = <<>> THEN 0
    ELSE (IF Head(violations).severity = sev THEN 1 ELSE 0)
         + CountSeverity(Tail(violations), sev)

\* variant: any violation fails the verdict
ConstraintResultFailsOnWarnings(violations) ==
    [passed |-> violations = <<>>,
     violations |-> violations,
     summary |-> <<CountSeverity(violations, "error"),
                   Len(violations) - CountSeverity(violations, "error")>>]

\* validate_layout's closing lines: passed iff no error-severity violation
ConstraintResult(violations) ==
    LET error_count == CountSeverity(violations, "error")
        warning_count == Len(violations) - error_count
    IN [passed |-> error_count = 0,
        violations |-> violations,
        summary |-> <<error_count, warning_count>>]

constraint_score(constraint_result) ==
    LET error_count == CountSeverity(constraint_result.violations, "error")
        warning_count == Len(constraint_result.violations) - error_count
    IN <<error_count, warning_count>>

\* variant: the key is compared on warnings first
TupleLessWarningsFirst(a, b) == a[2] < b[2] \/ (a[2] = b[2] /\ a[1] < b[1])

\* Python tuple comparison of two (int, int) keys
TupleLess(a, b) == a[1] < b[1] \/ (a[1] = b[1] /\ a[2] < b[2])

\* Python min(iterable, key=...): the first element whose key is minimal
MinByScore(outcomes) ==
    LET best == CHOOSE i \in 1..Len(outcomes) :
                  /\ \A j \in 1..Len(outcomes) :
                        ~TupleLess(constraint_score(outcomes[j].verdict),
                                   constraint_score(outcomes[i].verdict))
                  /\ \A j \in 1..(i - 1) :
                        TupleLess(constraint_score(outcomes[i].verdict),
                                  constraint_score(outcomes[j].verdict))
    IN outcomes[best]

\* variant: serial mode is not told apart
SerialModeNever(requested_candidates) == FALSE

\* if requested_candidates <= 1: return 1
serial_mode(requested_candidates) == requested_candidates <= 1

\* variant: only the upper limit is applied
ClampUpperOnly(candidate_min, candidate_max, n) == Min2(candidate_max, n)

\* max(candidate_min, min(candidate_max, n))
clamp_candidates(candidate_min, candidate_max, n) ==
    Max2(candidate_min, Min2(candidate_max, n))

\* failure_rate = errors / total if total > 0 else 0.0; failure_rate > 0.0
failure_rate_positive(prior_errors_n, prior_total_candidates) ==
    prior_total_candidates > 0 /\ prior_errors_n > 0

\* variant: the warnings-only test comes before the failure test
AdjustedWarningsFirst(current, score, provider_failed) ==
    IF score[1] = 0 /\ score[2] > 0 THEN current + 1
    ELSE IF provider_failed THEN current - 1
    ELSE current

\* variant: the count is never raised
AdjustedNeverIncreases(current, score, provider_failed) ==
    IF provider_failed THEN current - 1 ELSE current

\* variant: blocking errors raise the count as warnings do
AdjustedIncreasesOnErrors(current, score, provider_failed) ==
    IF provider_failed THEN current - 1
    ELSE IF score[1] + score[2] > 0 THEN current + 1
    ELSE current

\* the if / elif / else that sets "adjusted"
adjusted_candidates(current, score, provider_failed) ==
    IF provider_failed THEN current - 1
    ELSE IF score[1] = 0 /\ score[2] > 0 THEN current + 1
    ELSE current

compute_adaptive_candidates(requested_candidates, prior_result, prior_errors_n, prior_total_candidates, candidate_min, candidate_max) ==
    IF serial_mode(requested_candidates) THEN 1
    ELSE IF prior_result = None
    THEN clamp_candidates(candidate_min, candidate_max, requested_candidates)
    ELSE clamp_candidates(
             candidate_min, candidate_max,
             adjusted_candidates(
                 requested_candidates,
                 constraint_score(ValueOf(prior_result)),
                 failure_rate_positive(prior_errors_n,
                                       prior_total_candidates)))

NumHints == 3

\* A prompt is the caller's text, the feedback block appended by a retry
\* (None before the first failure) and the candidate-variation line
\* (None when no hint is appended).
OriginalPrompt == [text |-> "prompt", feedback |-> None, variation |-> None]

candidate_prompt(base_prompt, candidate_index, total_candidates) ==
    IF total_candidates <= 1 THEN base_prompt
    ELSE [base_prompt EXCEPT !.variation =
            Some([index |-> candidate_index,
                  total |-> total_candidates,
                  hint |-> ((candidate_index - 1) % NumHints) + 1])]

build_feedback_prompt(original_prompt, previous_layout, constraint_result) ==
    [original_prompt EXCEPT !.feedback =
        Some([previous_layout |-> previous_layout,
              violations |-> constraint_result.violations])]

\* ======================================================================
\* Layout validation (app/services/constraint_checker.py)
\* ======================================================================
\* Lengths are whole millimetres.  Room boundaries are rings of points; the
\* rings considered are the axis-parallel rectangles, for which Shapely's
\* results are exact in whole numbers, the self-crossing "bowtie" on the
\* same four corners, which Shapely reports as not valid, and the L-shaped
\* ring of a rectangular block with a lower arm on its right side.  Walls run
\* parallel to an axis and fixtures are rotated by a multiple of 90 degrees.

\* a polygon as the checks see it: empty, an axis-parallel rectangle, a
\* union of rectangles that share no area, or a ring that is not a valid
\* polygon
EmptyPolygon == [kind |-> "empty", x1 |-> 0, y1 |-> 0, x2 |-> 0, y2 |-> 0]
InvalidPolygon == [kind |-> "invalid", x1 |-> 0, y1 |-> 0, x2 |-> 0, y2 |-> 0]
RectPolygon(xa, ya, xb, yb) ==
    IF xa = xb \/ ya = yb THEN InvalidPolygon
    ELSE [kind |-> "rect", x1 |-> Min2(xa, xb), y1 |-> Min2(ya, yb),
          x2 |-> Max2(xa, xb), y2 |-> Max2(ya, yb)]

\* the rectangles a polygon is made of
PartsOf(poly) ==
    IF poly.kind = "rect" THEN <<poly>>
    ELSE IF poly.kind = "union" THEN poly.parts
    ELSE <<>>
\* the polygon made of the given rectangles
UnionPolygon(parts) ==
    IF parts = <<>> THEN EmptyPolygon
    ELSE IF Len(parts) = 1 THEN parts[1]
    ELSE [kind |-> "union", x1 |-> 0, y1 |-> 0, x2 |-> 0, y2 |-> 0,
          parts |-> parts]

is_valid(poly) == poly.kind # "invalid"
is_empty(poly) == poly.kind = "empty"
\* bool(polygon): a geometry is falsy exactly when it is empty
Truthy(poly) == ~is_empty(poly)
RectArea(r) == (r.x2 - r.x1) * (r.y2 - r.y1)
area(poly) ==
    LET parts == PartsOf(poly)
    IN SumSeq([k \in DOMAIN parts |-> RectArea(parts[k])])

\* what two rectangles share (empty when they share no area)
RectIntersection(a, b) ==
    LET xa == Max2(a.x1, b.x1)
        xb == Min2(a.x2, b.x2)
        ya == Max2(a.y1, b.y1)
        yb == Min2(a.y2, b.y2)
    IN IF xa < xb /\ ya < yb THEN RectPolygon(xa, ya, xb, yb)
       ELSE EmptyPolygon
\* a.intersection(b): what the rectangles of a share with those of b
intersection(a, b) ==
    LET pa == PartsOf(a)
        pb == PartsOf(b)
        shared == [k \in 1..(Len(pa) * Len(pb)) |->
                      RectIntersection(pa[((k - 1) \div Len(pb)) + 1],
                                       pb[((k - 1) % Len(pb)) + 1])]
    IN UnionPolygon(SelectSeq(shared, LAMBDA r : r.kind = "rect"))

\* variant: a rectangle exactly 2d wide is taken to leave something
BufferInwardsKeepsLine(poly, d) ==
    IF poly.kind # "rect" THEN EmptyPolygon
    ELSE IF poly.x2 - poly.x1 >= 2 * d /\ poly.y2 - poly.y1 >= 2 * d
         THEN [poly EXCEPT !.x1 = poly.x1 + d, !.y1 = poly.y1 + d,
                           !.x2 = poly.x2 - d, !.y2 = poly.y2 - d]
         ELSE EmptyPolygon

\* a rectangle shrunk by d on every side, empty once nothing with area
\* is left
RectBufferInwards(r, d) ==
    IF r.x2 - r.x1 > 2 * d /\ r.y2 - r.y1 > 2 * d
    THEN RectPolygon(r.x1 + d, r.y1 + d, r.x2 - d, r.y2 - d)
    ELSE EmptyPolygon
\* polygon.buffer(-d): the points further than d from the outside.  In a
\* union every part that is more than 2d wide both ways keeps its own
\* shrunk rectangle, so the result is empty only if no part does (the
\* unions considered have such a part or are at most 2d wide as a whole;
\* of the result only its emptiness is read).
buffer_inwards(poly, d) ==
    LET parts == PartsOf(poly)
        shrunk == [k \in DOMAIN parts |-> RectBufferInwards(parts[k], d)]
    IN UnionPolygon(SelectSeq(shrunk, LAMBDA r : r.kind = "rect"))

\* polygon.covers(Point(x, y)): interior or boundary
covers(poly, x, y) ==
    \E k \in DOMAIN PartsOf(poly) :
        LET r == PartsOf(poly)[k]
        IN r.x1 <= x /\ x <= r.x2 /\ r.y1 <= y /\ y <= r.y2

\* ring of an axis-parallel rectangle, closed, counter-clockwise
RectRing(xa, ya, xb, yb) ==
    <<(<<xa, ya>>), (<<xb, ya>>), (<<xb, yb>>), (<<xa, yb>>), (<<xa, ya>>)>>
\* the same corners joined crosswise: the ring crosses itself
BowtieRing(xa, ya, xb, yb) ==
    <<(<<xa, ya>>), (<<xb, yb>>), (<<xb, ya>>), (<<xa, yb>>), (<<xa, ya>>)>>

\* every edge of the ring runs parallel to an axis and has length
AxisParallelRing(boundary) ==
    \A k \in 1..(Len(boundary) - 1) :
        \/ boundary[k][1] = boundary[k + 1][1]
           /\ boundary[k][2] # boundary[k + 1][2]
        \/ boundary[k][2] = boundary[k + 1][2]
           /\ boundary[k][1] # boundary[k + 1][1]

\* ring of a block (xa..xm wide, ya..yb high) with an arm on its right
\* side that reaches xb and is only ya..ym high: an L, counter-clockwise
EllRing(xa, ya, xm, ym, xb, yb) ==
    <<(<<xa, ya>>), (<<xb, ya>>), (<<xb, ym>>), (<<xm, ym>>), (<<xm, yb>>),
      (<<xa, yb>>), (<<xa, ya>>)>>
IsEllRing(boundary) ==
    /\ Len(boundary) = 7 /\ boundary[1] = boundary[7]
    /\ boundary = EllRing(boundary[1][1], boundary[1][2], boundary[4][1],
                          boundary[4][2], boundary[2][1], boundary[5][2])
    /\ boundary[1][1] < boundary[4][1] /\ boundary[4][1] < boundary[2][1]
    /\ boundary[1][2] < boundary[4][2] /\ boundary[4][2] < boundary[5][2]

\* _room_polygon: Polygon(boundary) for a closed ring of five points, or of
\* seven that make an L
room_polygon(boundary) ==
    IF Len(boundary) = 5 /\ boundary[1] = boundary[5]
       /\ AxisParallelRing(boundary) /\ boundary[1] # boundary[3]
    THEN RectPolygon(boundary[1][1], boundary[1][2],
                     boundary[3][1], boundary[3][2])
    ELSE IF IsEllRing(boundary)
    THEN UnionPolygon(
             <<RectPolygon(boundary[1][1], boundary[1][2],
                           boundary[4][1], boundary[5][2]),
               RectPolygon(boundary[4][1], boundary[1][2],
                           boundary[2][1], boundary[4][2])>>)
    ELSE InvalidPolygon

\* _wall_polygon: the centre line buffered by half the thickness (at least
\* half a millimetre) with flat caps; no length, no polygon.  Twice the
\* coordinates are kept so that half a thickness stays a whole number.
wall_polygon(x1, y1, x2, y2, thickness_mm) ==
    LET t == Max2(thickness_mm, 1)
    IN IF x1 = x2 /\ y1 = y2 THEN EmptyPolygon
       ELSE IF y1 = y2
            THEN RectPolygon(2 * x1, 2 * y1 - t, 2 * x2, 2 * y1 + t)
            ELSE RectPolygon(2 * x1 - t, 2 * y1, 2 * x1 + t, 2 * y2)

\* _fixture_polygon: the width x depth box about the centre, turned by
\* rotation_deg (a multiple of 90), in doubled coordinates
fixture_polygon(fixture) ==
    LET turned == (fixture.rotation_deg \div 90) % 2 = 1
        w == IF turned THEN fixture.depth_mm ELSE fixture.width_mm
        d == IF turned THEN fixture.width_mm ELSE fixture.depth_mm
    IN IF w = 0 \/ d = 0 THEN EmptyPolygon
       ELSE RectPolygon(2 * fixture.center_x - w, 2 * fixture.center_y - d,
                        2 * fixture.center_x + w, 2 * fixture.center_y + d)

\* get_door_swing_arc: the quarter disc about the hinge, from the wall's
\* direction to its left or right normal, in doubled coordinates; empty
\* for a wall without length.  The hinge lies position_along_wall =
\* num / den of the way from the wall's start.
EmptySector == [kind |-> "empty", hx |-> 0, hy |-> 0, r |-> 0, sx |-> 0, sy |-> 0]
Sign(n) == IF n > 0 THEN 1 ELSE IF n < 0 THEN -1 ELSE 0
get_door_swing_arc(wall, door) ==
    LET dx == wall.x2 - wall.x1
        dy == wall.y2 - wall.y1
        ux == Sign(dx)
        uy == Sign(dy)
        px == IF door.swing_direction = "right" THEN uy ELSE -uy
        py == IF door.swing_direction = "right" THEN -ux ELSE ux
    IN IF dx = 0 /\ dy = 0 THEN EmptySector
       ELSE [kind |-> "sector",
             hx |-> 2 * wall.x1
                    + (2 * door.position_along_wall.num * dx)
                      \div door.position_along_wall.den,
             hy |-> 2 * wall.y1
                    + (2 * door.position_along_wall.num * dy)
                      \div door.position_along_wall.den,
             r |-> 2 * door.width_mm,
             sx |-> ux + px,
             sy |-> uy + py]

\* swing_arc.intersection(poly).area > 0 for a rectangle in doubled
\* coordinates: the part of the rectangle in the sector's quadrant has
\* area and its corner nearest to the hinge is closer than the radius
SwingMeets(sector, poly) ==
    /\ sector.kind = "sector"
    /\ poly.kind = "rect"
    /\ LET quadrant ==
               RectPolygon(sector.hx, sector.hy,
                           sector.hx + sector.sx * sector.r,
                           sector.hy + sector.sy * sector.r)
           part == intersection(quadrant, poly)
           nx == Max2(part.x1, Min2(part.x2, sector.hx))
           ny == Max2(part.y1, Min2(part.y2, sector.hy))
       IN /\ part.kind = "rect"
          /\ (nx - sector.hx) * (nx - sector.hx)
             + (ny - sector.hy) * (ny - sector.hy) < sector.r * sector.r

\* ---- values found in a perimeter wall's dictionary: a number, no such
\* key, something float() rejects with TypeError or ValueError (None, a
\* word), or a whole number beyond the range of a float, on which float()
\* raises OverflowError
Num(n) == [kind |-> "num", v |-> n]
Missing == [kind |-> "missing", v |-> 0]
Junk == [kind |-> "junk", v |-> 0]
Huge == [kind |-> "huge", v |-> 0]

\* _as_float: float(value), or the default when float() raises TypeError
\* or ValueError
as_float(value, default) == IF value.kind = "num" THEN value.v ELSE default
\* _as_float lets any other error of float() through
as_float_raises(value) == value.kind = "huge"

RECURSIVE Concat(_)
Concat(seqs) == IF seqs = <<>> THEN <<>> ELSE Head(seqs) \o Concat(Tail(seqs))

\* the last (key, value) pair of a sequence assigned under the key k
LastAssigned(pairs, k) ==
    pairs[CHOOSE i \in DOMAIN pairs :
              /\ pairs[i].key = k
              /\ \A j \in DOMAIN pairs : pairs[j].key = k => j <= i]

\* items of a dict filled by "d[key] = value" over a sequence of (key,
\* value) pairs: one item per key in the order the keys first came, holding
\* the value assigned last
RECURSIVE DictItems(_)
DictItems(pairs) ==
    IF pairs = <<>> THEN <<>>
    ELSE LET k == Head(pairs).key
         IN <<LastAssigned(pairs, k)>>
            \o DictItems(SelectSeq(Tail(pairs), LAMBDA e : e.key # k))

\* d.get(k) on such a dict: None, or the value assigned last
DictGet(pairs, k) ==
    IF \E j \in DOMAIN pairs : pairs[j].key = k
    THEN Some(LastAssigned(pairs, k).value)
    ELSE None

ConstraintViolation(type, severity, affected_elements) ==
    [type |-> type, severity |-> severity,
     affected_elements |-> affected_elements]

InteriorWall(id, x1, y1, x2, y2, thickness_mm) ==
    [id |-> id, x1 |-> x1, y1 |-> y1, x2 |-> x2, y2 |-> y2,
     thickness_mm |-> thickness_mm]

PerimeterDefaultIds == <<"perimeter_1", "perimeter_2", "perimeter_3", "perimeter_4">>

\* _build_wall_index: interior walls by id, then perimeter walls by id
\* (default perimeter_<position>), coordinates and thickness coerced
build_wall_index(layout) ==
    LET coerced(idx) ==
            LET wall == layout.perimeter_walls[idx]
                thickness_mm == as_float(wall.thickness_mm, 100)
            IN InteriorWall(
                   IF wall.id = None THEN PerimeterDefaultIds[idx]
                   ELSE ValueOf(wall.id),
                   as_float(wall.x1, 0), as_float(wall.y1, 0),
                   as_float(wall.x2, 0), as_float(wall.y2, 0),
                   IF thickness_mm <= 0 THEN 1 ELSE thickness_mm)
        walls == layout.interior_walls
                 \o [idx \in DOMAIN layout.perimeter_walls |-> coerced(idx)]
    IN DictItems([k \in DOMAIN walls |->
                     [key |-> walls[k].id, value |-> walls[k]]])

\* _perimeter_bbox_area_mm2: bounding box of the perimeter walls whose four
\* coordinates are all finite numbers, else the page area
perimeter_bbox_area_mm2(layout) ==
    LET finite(w) == /\ w.x1.kind = "num" /\ w.y1.kind = "num"
                     /\ w.x2.kind = "num" /\ w.y2.kind = "num"
        usable == {k \in DOMAIN layout.perimeter_walls :
                      finite(layout.perimeter_walls[k])}
        coords_x == UNION {{layout.perimeter_walls[k].x1.v,
                            layout.perimeter_walls[k].x2.v} : k \in usable}
        coords_y == UNION {{layout.perimeter_walls[k].y1.v,
                            layout.perimeter_walls[k].y2.v} : k \in usable}
        hi(S) == CHOOSE m \in S : \A n \in S : n <= m
        lo(S) == CHOOSE m \in S : \A n \in S : m <= n
        page == layout.page_dimensions_mm[1] * layout.page_dimensions_mm[2]
    IN IF usable = {} THEN page
       ELSE LET width == hi(coords_x) - lo(coords_x)
                height == hi(coords_y) - lo(coords_y)
            IN IF width > 0 /\ height > 0 THEN width * height ELSE page

\* str.lower() on the room types in use
Lower(s) ==
    CASE s = "Corridor" -> "corridor"
      [] s = "Hallway" -> "hallway"
      [] OTHER -> s

room_overlap_tolerance_mm2 == 10000

\* variant: a layout without rooms raises no violation
NoRoomsAccepted(rooms) == <<>>

\* what _build_wall_index raises, if anything, on the first perimeter wall
\* it cannot take: OverflowError out of _as_float (the thickness is read
\* first, then the coordinates), or the ValidationError of InteriorWall,
\* whose material must have a character (its thickness has been made
\* positive by then)
build_wall_index_exception(layout) ==
    LET walls == layout.perimeter_walls
        overflows(wall) ==
            \/ as_float_raises(wall.thickness_mm)
            \/ as_float_raises(wall.x1) \/ as_float_raises(wall.y1)
            \/ as_float_raises(wall.x2) \/ as_float_raises(wall.y2)
        rejected(wall) == wall.material = Some("")
        bad == {k \in DOMAIN walls : overflows(walls[k]) \/ rejected(walls[k])}
        first == CHOOSE k \in bad : \A j \in bad : k <= j
    IN IF bad = {} THEN None
       ELSE IF overflows(walls[first]) THEN Some("OverflowError")
       ELSE Some("ValidationError")

\* variant: only the door type tells a sliding door
SlidingByTypeOnly(door) == door.door_type = "sliding"

\* door.door_type == "sliding" or door.swing_direction == "sliding"
is_sliding(door) ==
    door.door_type = "sliding" \/ door.swing_direction = "sliding"

\* if not layout.rooms: one ROOM_NOT_ENCLOSED error naming nothing
no_rooms_violations(rooms) ==
    IF rooms = <<>>
    THEN <<ConstraintViolation("ROOM_NOT_ENCLOSED", "error", <<>>)>>
    ELSE <<>>

\* validate_layout
validate_layout(layout) ==
    LET rooms == layout.rooms
        \* room_polygons[room.name] = polygon, later rooms overwrite
        room_polygons == [k \in DOMAIN rooms |->
                             [key |-> rooms[k].name,
                              value |-> room_polygon(rooms[k].boundary)]]
        room_polygons_get(name) == DictGet(room_polygons, name)
        \* "poly and poly.is_valid"
        usable(opt) == opt # None /\ Truthy(ValueOf(opt))
                       /\ is_valid(ValueOf(opt))
        no_rooms == no_rooms_violations(rooms)
        not_enclosed ==
            Concat([k \in DOMAIN rooms |->
                LET polygon == room_polygons[k].value
                IN IF ~is_valid(polygon) \/ is_empty(polygon)
                      \/ area(polygon) <= 0
                   THEN <<ConstraintViolation("ROOM_NOT_ENCLOSED", "error",
                                              <<rooms[k].name>>)>>
                   ELSE <<>>])
        overlaps ==
            Concat([i \in DOMAIN rooms |-> Concat([j \in DOMAIN rooms |->
                LET poly_a == room_polygons_get(rooms[i].name)
                    poly_b == room_polygons_get(rooms[j].name)
                IN IF j > i /\ usable(poly_a) /\ usable(poly_b)
                      /\ area(intersection(ValueOf(poly_a),
                                           ValueOf(poly_b)))
                            > room_overlap_tolerance_mm2
                   THEN <<ConstraintViolation("ROOM_OVERLAP", "error",
                              <<rooms[i].name, rooms[j].name>>)>>
                   ELSE <<>>])])
        corridors ==
            Concat([k \in DOMAIN rooms |->
                LET corridor_poly == room_polygons_get(rooms[k].name)
                IN IF Lower(rooms[k].room_type)
                         \in {"corridor", "hallway", "passage"}
                      /\ usable(corridor_poly)
                      /\ is_empty(buffer_inwards(
                                ValueOf(corridor_poly), 450))
                   THEN <<ConstraintViolation("CORRIDOR_TOO_NARROW", "error",
                                              <<rooms[k].name>>)>>
                   ELSE <<>>])
        wall_index == build_wall_index(layout)
        wall_geometry(wall) ==
            wall_polygon(wall.x1, wall.y1, wall.x2, wall.y2,
                         wall.thickness_mm)
        \* fixture_geometries: fixture.id -> polygon, later ids overwrite
        fixture_geometries ==
            DictItems([k \in DOMAIN layout.fixtures |->
                          [key |-> layout.fixtures[k].id,
                           value |-> fixture_polygon(layout.fixtures[k])]])
        door_check(door) ==
            LET host_wall == DictGet(wall_index, door.wall_id)
                swing_arc == get_door_swing_arc(ValueOf(host_wall), door)
                walls_hit == {k \in DOMAIN wall_index :
                                 /\ wall_index[k].key # door.wall_id
                                 /\ SwingMeets(swing_arc,
                                        wall_geometry(wall_index[k].value))}
                fixtures_hit == {k \in DOMAIN fixture_geometries :
                                    SwingMeets(swing_arc,
                                               fixture_geometries[k].value)}
                first(S) == CHOOSE m \in S : \A n \in S : m <= n
            IN IF is_sliding(door)
               THEN <<>>
               ELSE IF host_wall = None
               THEN <<ConstraintViolation("DOOR_SWING_BLOCKED", "error",
                                          <<door.id, door.wall_id>>)>>
               ELSE IF swing_arc.kind = "empty" THEN <<>>
               ELSE IF walls_hit # {}
               THEN <<ConstraintViolation("DOOR_SWING_BLOCKED", "error",
                          <<door.id, wall_index[first(walls_hit)].key>>)>>
               ELSE IF fixtures_hit # {}
               THEN <<ConstraintViolation("DOOR_SWING_BLOCKED", "error",
                          <<door.id,
                            fixture_geometries[first(fixtures_hit)].key>>)>>
               ELSE <<>>
        doors == Concat([k \in DOMAIN layout.doors |->
                            door_check(layout.doors[k])])
        total_room_area_mm2 ==
            SumSeq([k \in DOMAIN rooms |->
                LET poly == room_polygons_get(rooms[k].name)
                IN IF usable(poly) THEN area(ValueOf(poly)) ELSE 0])
        perimeter_area_mm2 == perimeter_bbox_area_mm2(layout)
        \* total_room_area_mm2 > perimeter_area_mm2 * 1.05
        over_budget ==
            IF perimeter_area_mm2 > 0
               /\ total_room_area_mm2 * 100 > perimeter_area_mm2 * 105
            THEN <<ConstraintViolation("AREA_EXCEEDS_PERIMETER", "error",
                       [k \in DOMAIN rooms |-> rooms[k].name])>>
            ELSE <<>>
        fixtures == layout.fixtures
        outside ==
            Concat([k \in DOMAIN fixtures |->
                LET room_poly == room_polygons_get(fixtures[k].room_name)
                IN IF room_poly = None
                      \/ ~is_valid(ValueOf(room_poly))
                      \/ ~covers(ValueOf(room_poly),
                                 fixtures[k].center_x, fixtures[k].center_y)
                   THEN <<ConstraintViolation("FIXTURE_OUTSIDE_ROOM",
                              "warning",
                              <<fixtures[k].id, fixtures[k].room_name>>)>>
                   ELSE <<>>])
        \* fixtures_by_room: groups in the order their room names first come
        fixtures_by_room ==
            DictItems([k \in DOMAIN fixtures |->
                          [key |-> fixtures[k].room_name,
                           value |-> SelectSeq(fixtures,
                               LAMBDA f : f.room_name
                                             = fixtures[k].room_name)]])
        fixture_geometry(id) == ValueOf(DictGet(fixture_geometries, id))
        group_overlaps(room_name, g) ==
               Concat([i \in DOMAIN g |-> Concat([j \in DOMAIN g |->
                   IF j > i
                      /\ area(intersection(fixture_geometry(g[i].id),
                                           fixture_geometry(g[j].id))) > 0
                   THEN <<ConstraintViolation("FIXTURE_OVERLAP", "warning",
                              <<g[i].id, g[j].id, room_name>>)>>
                   ELSE <<>>])])
        fixture_overlaps ==
            Concat([k \in DOMAIN fixtures_by_room |->
                       group_overlaps(fixtures_by_room[k].key,
                                      fixtures_by_room[k].value)])
    IN ConstraintResult(no_rooms \o not_enclosed \o overlaps \o corridors
                        \o doors \o over_budget \o outside
                        \o fixture_overlaps)

\* ---- layouts handed to validate_layout
GeneratedLayout(rooms, interior_walls, doors, fixtures, perimeter_walls, page_dimensions_mm) ==
    [rooms |-> rooms, interior_walls |-> interior_walls, doors |-> doors,
     fixtures |-> fixtures, perimeter_walls |-> perimeter_walls,
     page_dimensions_mm |-> page_dimensions_mm]

GeneratedRoom(name, room_type, boundary) ==
    [name |-> name, room_type |-> room_type, boundary |-> boundary]

Fixture(id, room_name, center_x, center_y, width_mm, depth_mm, rotation_deg) ==
    [id |-> id, room_name |-> room_name, center_x |-> center_x,
     center_y |-> center_y, width_mm |-> width_mm, depth_mm |-> depth_mm,
     rotation_deg |-> rotation_deg]

Door(id, wall_id, position_along_wall, width_mm, swing_direction, door_type) ==
    [id |-> id, wall_id |-> wall_id,
     position_along_wall |-> position_along_wall, width_mm |-> width_mm,
     swing_direction |-> swing_direction, door_type |-> door_type]

PerimeterWall(id, x1, y1, x2, y2, thickness_mm, material) ==
    [id |-> id, x1 |-> x1, y1 |-> y1, x2 |-> x2, y2 |-> y2,
     thickness_mm |-> thickness_mm, material |-> material]

\* coordinates chosen so that widths of 50, 100, 900, 950 and 1000 mm and
\* overlaps of 5,000, 10,000 and 90,000 mm2 and more all occur
XCoords == {0, 50, 100, 1000}
\* low rectangles between any two of the coordinates, two tall ones (1000
\* and 900 mm wide), one ring given clockwise, one without width and one
\* that crosses itself
RoomBoundaries ==
    {RectRing(xs[1], 0, xs[2], 100) :
        xs \in {p \in XCoords \X XCoords : p[1] < p[2]}}
    \cup {RectRing(0, 0, 1000, 1000), RectRing(100, 0, 1000, 1000),
          RectRing(1000, 0, 0, 100), RectRing(0, 0, 0, 1000),
          BowtieRing(0, 0, 1000, 1000)}
RoomNames == {"Room A", "Room B"}
RoomTypes == {"operatory", "Corridor"}
Rooms ==
    {GeneratedRoom(n, t, b) :
        n \in RoomNames, t \in RoomTypes, b \in RoomBoundaries}

PageDimensions == <<1000, 1000>>
SquareRoom == GeneratedRoom("Room A", "operatory", RectRing(0, 0, 1000, 1000))

\* rooms only: treatment rooms that overlap by less than, exactly or more
\* than the tolerance, that touch, or whose rings make no valid polygon
OverlapRooms ==
    {GeneratedRoom(n, "operatory", b) :
        n \in RoomNames,
        b \in {RectRing(0, 0, 50, 100), RectRing(0, 0, 100, 100),
               RectRing(0, 0, 1000, 100), RectRing(100, 0, 1000, 100),
               RectRing(0, 0, 1000, 1000), RectRing(1000, 0, 0, 100),
               RectRing(0, 0, 0, 1000), BowtieRing(0, 0, 1000, 1000)}}
RoomLayouts ==
    {GeneratedLayout(rooms, <<>>, <<>>, <<>>, <<>>, PageDimensions) :
        rooms \in SeqsUpTo(OverlapRooms, MaxRooms)}

\* one square room and fixtures in it, beside it or assigned elsewhere
Fixtures ==
    {Fixture(id, room_name, c[1], c[2], 200, 100, rotation_deg) :
        id \in {"f_1", "f_2"}, room_name \in {"Room A", "Room C"},
        c \in {<<500, 500>>, <<500, 600>>, <<1000, 500>>, <<2000, 500>>},
        rotation_deg \in {0, 90}}
PlacedFixtures == {f \in Fixtures : f.rotation_deg = 0 /\ f.center_x # 1000}
FixtureLayouts ==
    {GeneratedLayout(<<SquareRoom>>, <<>>, <<>>, fixtures, <<>>,
                     PageDimensions) :
        fixtures \in SeqsUpTo(PlacedFixtures, MaxFixtures)}

\* any one room and any one fixture
MixedLayouts ==
    {GeneratedLayout(<<room>>, <<>>, <<>>, <<fixture>>, <<>>,
                     PageDimensions) :
        room \in Rooms, fixture \in Fixtures}

\* one room, with the perimeter walls and the page that set the budget
PerimeterWallLists ==
    {<<>>,
     <<PerimeterWall(None, Num(0), Num(0), Num(500), Num(0), Num(200),
                     None),
       PerimeterWall(None, Num(500), Num(0), Num(500), Num(500), Num(200),
                     None)>>,
     <<PerimeterWall(None, Num(0), Num(0), Num(500), Num(0), Missing,
                     None)>>,
     <<PerimeterWall(Some("north"), Junk, Num(0), Num(500), Missing, Num(0),
                     Some("brick"))>>}
PerimeterLayouts ==
    {GeneratedLayout(<<room>>, <<>>, <<>>, <<>>, perimeter_walls, page) :
        room \in {r \in Rooms : r.name = "Room A"},
        perimeter_walls \in PerimeterWallLists,
        page \in {PageDimensions, <<500, 1000>>}}

\* one square room split by a partition, with a door and maybe a fixture
Doors ==
    {Door("d_1", wall_id, position, width_mm, swing_direction, door_type) :
        wall_id \in {"iw_1", "iw_9", "perimeter_1"},
        position \in {[num |-> 0, den |-> 1], [num |-> 1, den |-> 2]},
        width_mm \in {100, 800},
        swing_direction \in {"left", "right", "sliding"},
        door_type \in {"single", "sliding"}}
PartitionLists ==
    {<<InteriorWall("iw_1", 500, 0, 500, 1000, 100)>>,
     <<InteriorWall("iw_1", 500, 0, 500, 1000, 100),
       InteriorWall("iw_2", 0, 500, 500, 500, 100)>>}
DoorLayouts ==
    {GeneratedLayout(<<SquareRoom>>, interior_walls, <<door>>, fixtures,
                     perimeter_walls, PageDimensions) :
        interior_walls \in PartitionLists,
        door \in Doors,
        fixtures \in {<<>>, <<Fixture("f_1", "Room A", 300, 200, 200, 100, 0)>>},
        perimeter_walls \in
            {<<>>,
             <<PerimeterWall(None, Num(0), Num(0), Num(1000), Num(0),
                             Num(200), None)>>}}

\* no room or a square one, inside perimeter walls whose id, first
\* coordinate, thickness and material are fine, missing, zero, negative,
\* not a number, too large, or empty
MalformedWalls ==
    {PerimeterWall(id, x1, Num(0), Num(500), Num(0), thickness_mm, material) :
        id \in {None, Some("")},
        x1 \in {Num(0), Missing, Junk, Huge},
        thickness_mm \in {Num(200), Num(0), Num(-5), Missing, Junk, Huge},
        material \in {None, Some("brick"), Some("")}}
MalformedPerimeterLayouts ==
    {GeneratedLayout(rooms, <<>>, <<>>, <<>>, perimeter_walls,
                     PageDimensions) :
        rooms \in {<<>>, <<SquareRoom>>},
        perimeter_walls \in
            {<<wall>> : wall \in MalformedWalls}
            \cup {<<PerimeterWall(None, Num(500), Num(0), Num(500), Num(500),
                                  Num(200), None), wall>> :
                      wall \in MalformedWalls}}

\* one or two rooms, corridors among them: a wide block with a 100 mm
\* arm, an L that is 100 mm across as a whole, and rectangles 1000, 900
\* and 100 mm wide
CorridorRooms ==
    {GeneratedRoom(n, t, b) :
        n \in RoomNames, t \in {"corridor", "Hallway", "operatory"},
        b \in {EllRing(0, 0, 1000, 100, 2000, 1000),
               EllRing(0, 0, 50, 50, 100, 100),
               RectRing(0, 0, 1000, 1000), RectRing(100, 0, 1000, 1000),
               RectRing(0, 0, 1000, 100)}}
CorridorLayouts ==
    {GeneratedLayout(rooms, <<>>, <<>>, <<>>, <<>>, <<2000, 1000>>) :
        rooms \in {<<a>> : a \in CorridorRooms}
                  \cup {<<a, b>> : a \in CorridorRooms, b \in CorridorRooms}}

\* two doors on the partition of a square room, one in its middle and a
\* wide one at its foot
TwoDoorLayouts ==
    {GeneratedLayout(<<SquareRoom>>, interior_walls,
                     <<Door("d_1", "iw_1", [num |-> 1, den |-> 2], 100,
                            swing_a, "single"),
                       Door("d_2", "iw_1", [num |-> 0, den |-> 1], 800,
                            swing_b, door_type)>>,
                     fixtures, <<>>, PageDimensions) :
        interior_walls \in PartitionLists,
        swing_a \in {"left", "right", "sliding"},
        swing_b \in {"left", "right"},
        door_type \in {"single", "sliding"},
        fixtures \in {<<>>, <<Fixture("f_1", "Room A", 300, 200, 200, 100, 0)>>}}

Layouts ==
    RoomLayouts \cup FixtureLayouts \cup MixedLayouts \cup PerimeterLayouts
    \cup DoorLayouts \cup TwoDoorLayouts \cup CorridorLayouts
    \cup MalformedPerimeterLayouts

\* what a candidate's generate + snap can hand to validate_layout in a run:
\* no room, a clean room, a room with a misplaced fixture, two rooms on
\* top of each other
CandidateLayouts ==
    {GeneratedLayout(<<>>, <<>>, <<>>, <<>>, <<>>, PageDimensions),
     GeneratedLayout(<<SquareRoom>>, <<>>, <<>>, <<>>, <<>>, PageDimensions),
     GeneratedLayout(<<SquareRoom>>, <<>>, <<>>,
                     <<Fixture("f_1", "Room A", 2000, 500, 200, 100, 0)>>,
                     <<>>, PageDimensions),
     GeneratedLayout(<<SquareRoom,
                       GeneratedRoom("Room B", "operatory",
                                     RectRing(0, 0, 50, 1000))>>,
                     <<>>, <<>>, <<>>, <<>>, PageDimensions)}

\* ------------------------------------------------------------------ state
\* no _call_gemini_with_retry invocation is being followed
RetryIdle ==
    /\ max_retries = 0
    /\ base_delay = 1
    /\ max_delay = 1
    /\ futures_timeout_is_builtin = FALSE
    /\ r_pc = "idle"
    /\ attempt = 0
    /\ last_exc = None
    /\ svc = "none"
    /\ svc_exc = None
    /\ future_outcome = None
    /\ sleeps = <<>>
    /\ r_result = None
    /\ service_calls = 0
    /\ attempt_log = <<>>

\* no stand-alone _compute_adaptive_candidates call is being followed
FanoutIdle ==
    /\ fo_pc = "idle"
    /\ fo_requested = 0
    /\ fo_prior_result = None
    /\ fo_prior_errors = 0
    /\ fo_prior_total = 0
    /\ fo_min = 0
    /\ fo_max = 0
    /\ fo_return = None

\* no stand-alone validate_layout call is being followed
ValidateIdle ==
    /\ vl_pc = "idle"
    /\ vl_layout = None
    /\ vl_result = None

\* no stand-alone snap_layout_to_grid call is being followed
SnapIdle ==
    /\ sn_pc = "idle"
    /\ sn_layout = None
    /\ sn_grid = 0
    /\ sn_once = None
    /\ sn_twice = None

\* the jobs table is empty and no run_job call is being followed
JobIdle ==
    /\ jobs = <<>>
    /\ runs = <<>>
    /\ repository_calls = 0

Init ==
    /\ RetryIdle
    /\ FanoutIdle
    /\ ValidateIdle
    /\ SnapIdle
    /\ JobIdle
    /\ max_iterations \in 0..MaxIterations
    /\ parallel_candidates \in 0..GENERATION_PARALLEL_CANDIDATES
    /\ max_workers \in {0, 1, GENERATION_MAX_WORKERS}
    /\ pc = "entry"
    /\ iteration = 0
    /\ current_candidates = 0
    /\ current_prompt = OriginalPrompt
    /\ candidate_prompts = <<>>
    /\ prior_constraint_result = None
    /\ prior_candidate_errors = 0
    /\ constraint_history = <<>>
    /\ last_snapped_layout = None
    /\ futures = <<>>
    /\ candidate_outcomes = <<>>
    /\ candidate_errors = <<>>
    /\ selected = None
    /\ result = None
    /\ raised = None
    /\ generate_calls = 0
    /\ selected_log = <<>>
    /\ dispatch_log = <<>>
    /\ collect_log = <<>>

\* exceptions are identified by the candidate that raised them, layouts by
\* the candidate that produced them and by what they hold
CandidateId(iter, index) == [iter |-> iter, cand |-> index]
LayoutOf(candidate, snapped_layout) ==
    [candidate |-> candidate, content |-> snapped_layout]

\* how many candidates of an iteration returned and how many raised
CollectEntry(outcomes, errors) ==
    [ok |-> Len(outcomes), failed |-> Len(errors)]

\* ---------------------------------------------------------------- actions
\* argument checks and local initialisation of generate_validated_layout
Entry ==
    /\ pc = "entry"
    /\ IF max_iterations <= 0 \/ parallel_candidates <= 0 \/ max_workers <= 0
       THEN /\ raised' = Some([type |-> "ValueError", cause |-> None])
            /\ pc' = "raised"
            /\ UNCHANGED current_candidates
       ELSE /\ current_candidates' = parallel_candidates
            /\ pc' = "loop"
            /\ UNCHANGED raised
    /\ UNCHANGED <<nonOrchVars, max_iterations, parallel_candidates, max_workers,
                   iteration, current_prompt, candidate_prompts,
                   prior_constraint_result, prior_candidate_errors,
                   constraint_history, last_snapped_layout, futures,
                   candidate_outcomes, candidate_errors, selected, result,
                   generate_calls, selected_log, dispatch_log, collect_log>>

\* variant: the range holds one value more
RangeHasOneMore(done, n) == done > n

\* range(1, n + 1) has no value left after "done" of them
range_exhausted(done, n) == done >= n

\* head of the for loop: fan-out for this iteration, prompts, dispatch
BeginIteration ==
    /\ pc = "loop"
    /\ ~range_exhausted(iteration, max_iterations)
    /\ LET n == compute_adaptive_candidates(
                    current_candidates, prior_constraint_result,
                    prior_candidate_errors, current_candidates,
                    GENERATION_CANDIDATE_MIN, GENERATION_CANDIDATE_MAX)
       IN /\ current_candidates' = n
          /\ candidate_prompts' =
                [i \in 1..n |-> candidate_prompt(current_prompt, i, n)]
          /\ dispatch_log' = Append(dispatch_log, n)
          /\ IF n = 1
             THEN /\ pc' = "inline"
                  /\ futures' = <<>>
             ELSE /\ pc' = "pool"
                  /\ futures' = [i \in 1..n |-> [st |-> "queued"]]
    /\ iteration' = iteration + 1
    /\ candidate_outcomes' = <<>>
    /\ candidate_errors' = <<>>
    /\ UNCHANGED <<nonOrchVars, max_iterations, parallel_candidates, max_workers,
                   current_prompt, prior_constraint_result,
                   prior_candidate_errors, constraint_history,
                   last_snapped_layout, selected, result, raised,
                   generate_calls, selected_log, collect_log>>

\* single candidate, run inline: generate + snap + validate returned
InlineCandidateReturns ==
    /\ pc = "inline"
    /\ \E snapped_layout \in CandidateLayouts :
          candidate_outcomes' =
              Append(candidate_outcomes,
                     [layout |-> LayoutOf(CandidateId(iteration, 1),
                                          snapped_layout),
                      verdict |-> validate_layout(snapped_layout)])
    /\ generate_calls' = generate_calls + 1
    /\ collect_log' = Append(collect_log, CollectEntry(candidate_outcomes',
                                                       candidate_errors))
    /\ pc' = "collected"
    /\ UNCHANGED <<nonOrchVars, max_iterations, parallel_candidates, max_workers,
                   iteration, current_candidates, current_prompt,
                   candidate_prompts, prior_constraint_result,
                   prior_candidate_errors, constraint_history,
                   last_snapped_layout, futures, candidate_errors,
                   selected, result, raised, selected_log, dispatch_log>>

\* single candidate, run inline: the call raised
InlineCandidateRaises ==
    /\ pc = "inline"
    /\ candidate_errors' = Append(candidate_errors, CandidateId(iteration, 1))
    /\ generate_calls' = generate_calls + 1
    /\ collect_log' = Append(collect_log, CollectEntry(candidate_outcomes,
                                                       candidate_errors'))
    /\ pc' = "collected"
    /\ UNCHANGED <<nonOrchVars, max_iterations, parallel_candidates, max_workers,
                   iteration, current_candidates, current_prompt,
                   candidate_prompts, prior_constraint_result,
                   prior_candidate_errors, constraint_history,
                   last_snapped_layout, futures, candidate_outcomes,
                   selected, result, raised, selected_log, dispatch_log>>

\* ---- several candidates: ThreadPoolExecutor + as_completed
worker_count == Min2(max_workers, Len(candidate_prompts))

WithStatus(st) == {i \in DOMAIN futures : futures[i].st = st}

\* variant: the loop over as_completed stops at the first gathered future
AsCompletedFirstDone == \E i \in DOMAIN futures : futures[i].st = "collected"

\* as_completed has yielded every submitted future
AsCompletedExhausted == \A i \in DOMAIN futures : futures[i].st = "collected"

\* a free pool worker takes the oldest queued task and starts the call
WorkerStartsCandidate ==
    /\ pc = "pool"
    /\ WithStatus("queued") # {}
    /\ Cardinality(WithStatus("running")) < worker_count
    /\ LET i == CHOOSE q \in WithStatus("queued") :
                    \A r \in WithStatus("queued") : q <= r
       IN futures' = [futures EXCEPT ![i].st = "running"]
    /\ generate_calls' = generate_calls + 1
    /\ UNCHANGED <<nonOrchVars, max_iterations, parallel_candidates, max_workers, pc,
                   iteration, current_candidates, current_prompt,
                   candidate_prompts, prior_constraint_result,
                   prior_candidate_errors, constraint_history,
                   last_snapped_layout, candidate_outcomes,
                   candidate_errors, selected, result, raised,
                   selected_log, dispatch_log, collect_log>>

\* a running candidate returns from generate + snap + validate; its future
\* completes and as_completed hands it to the main thread, which appends
\* the (layout, verdict) pair
CandidateReturns ==
    /\ pc = "pool"
    /\ \E i \in WithStatus("running"), snapped_layout \in CandidateLayouts :
          /\ futures' = [futures EXCEPT ![i].st = "collected"]
          /\ candidate_outcomes' =
                Append(candidate_outcomes,
                       [layout |-> LayoutOf(CandidateId(iteration, i),
                                            snapped_layout),
                        verdict |-> validate_layout(snapped_layout)])
    /\ UNCHANGED <<nonOrchVars, max_iterations, parallel_candidates, max_workers, pc,
                   iteration, current_candidates, current_prompt,
                   candidate_prompts, prior_constraint_result,
                   prior_candidate_errors, constraint_history,
                   last_snapped_layout, candidate_errors, selected, result, raised,
                   generate_calls, selected_log, dispatch_log, collect_log>>

\* a running candidate raises (provider, parse, snap or validation error);
\* future.result() re-raises in the main thread, which records the exception
CandidateRaises ==
    /\ pc = "pool"
    /\ \E i \in WithStatus("running") :
          /\ futures' = [futures EXCEPT ![i].st = "collected"]
          /\ candidate_errors' =
                Append(candidate_errors, CandidateId(iteration, i))
    /\ UNCHANGED <<nonOrchVars, max_iterations, parallel_candidates, max_workers, pc,
                   iteration, current_candidates, current_prompt,
                   candidate_prompts, prior_constraint_result,
                   prior_candidate_errors, constraint_history,
                   last_snapped_layout, candidate_outcomes, selected, result, raised,
                   generate_calls, selected_log, dispatch_log, collect_log>>

\* as_completed is exhausted and the with block closes the pool
PoolDone ==
    /\ pc = "pool"
    /\ AsCompletedExhausted
    /\ collect_log' = Append(collect_log, CollectEntry(candidate_outcomes,
                                                       candidate_errors))
    /\ pc' = "collected"
    /\ UNCHANGED <<nonOrchVars, max_iterations, parallel_candidates, max_workers,
                   iteration, current_candidates, current_prompt,
                   candidate_prompts, prior_constraint_result,
                   prior_candidate_errors, constraint_history,
                   last_snapped_layout, futures, candidate_outcomes,
                   candidate_errors, selected, result, raised,
                   generate_calls, selected_log, dispatch_log>>

\* ---- after collection
\* variant: any failed candidate aborts the run
AnyCandidateFailed(outcomes, errors) == errors # <<>>

\* "if not candidate_outcomes"
NoCandidateSucceeded(outcomes, errors) == outcomes = <<>>

\* variant: only a verdict without any violation counts as passed
VerdictPassedNoViolations(constraint_result) ==
    constraint_result.violations = <<>>

\* "if constraint_result.passed"
VerdictPassed(constraint_result) == constraint_result.passed

\* variant: the verdict is recorded only on the retry path
AppendHistoryOnFailure(history, constraint_result) ==
    IF constraint_result.passed THEN history
    ELSE Append(history, constraint_result)

\* constraint_history.append(constraint_result)
AppendHistory(history, constraint_result) == Append(history, constraint_result)

\* "Layout failed validation after {n} attempts"
FailedValidationMessage(n) ==
    [text |-> "Layout failed validation after N attempts", n |-> n]

\* variant: the failure result drops the last selected layout
ExhaustedResultDropsLayout(layout, n, history) ==
    [layout |-> None,
     success |-> FALSE,
     iterations_used |-> n,
     constraint_history |-> history,
     error_message |-> Some(FailedValidationMessage(n))]

\* the GenerationResult built after the loop
ExhaustedResult(layout, n, history) ==
    [layout |-> layout,
     success |-> FALSE,
     iterations_used |-> n,
     constraint_history |-> history,
     error_message |-> Some(FailedValidationMessage(n))]

\* the GenerationResult built when the selected verdict passed
SuccessResult(layout, n, history) ==
    [layout |-> Some(layout),
     success |-> TRUE,
     iterations_used |-> n,
     constraint_history |-> history,
     error_message |-> None]

\* variant: the most recent captured exception is used as cause
FirstErrorTakesLast(errors) ==
    IF errors # <<>> THEN Some(errors[Len(errors)]) ELSE None

\* first_error of the "if not candidate_outcomes" branch
FirstError(errors) ==
    IF errors # <<>> THEN Some(errors[1]) ELSE None

RaiseAllCandidatesFailed ==
    /\ pc = "collected"
    /\ NoCandidateSucceeded(candidate_outcomes, candidate_errors)
    /\ raised' = Some([type |-> "RuntimeError",
                       cause |-> FirstError(candidate_errors)])
    /\ pc' = "raised"
    /\ UNCHANGED <<nonOrchVars, max_iterations, parallel_candidates, max_workers,
                   iteration, current_candidates, current_prompt,
                   candidate_prompts, prior_constraint_result,
                   prior_candidate_errors, constraint_history,
                   last_snapped_layout, futures, candidate_outcomes,
                   candidate_errors, selected, result,
                   generate_calls, selected_log, dispatch_log, collect_log>>

\* min(...) over the outcomes, history append, adaptive signals
SelectBest ==
    /\ pc = "collected"
    /\ ~NoCandidateSucceeded(candidate_outcomes, candidate_errors)
    /\ LET best == MinByScore(candidate_outcomes)
       IN /\ selected' = Some(best)
          /\ constraint_history' =
                AppendHistory(constraint_history, best.verdict)
          /\ last_snapped_layout' = Some(best.layout)
          /\ prior_constraint_result' = Some(best.verdict)
          /\ selected_log' = Append(selected_log, best)
    /\ prior_candidate_errors' = Len(candidate_errors)
    /\ pc' = "check"
    /\ UNCHANGED <<nonOrchVars, max_iterations, parallel_candidates, max_workers,
                   iteration, current_candidates, current_prompt,
                   candidate_prompts, futures, candidate_outcomes,
                   candidate_errors, result, raised,
                   generate_calls, dispatch_log, collect_log>>

ReturnSuccess ==
    /\ pc = "check"
    /\ VerdictPassed(ValueOf(selected).verdict)
    /\ result' = Some(SuccessResult(ValueOf(selected).layout, iteration,
                                    constraint_history))
    /\ pc' = "returned"
    /\ UNCHANGED <<nonOrchVars, max_iterations, parallel_candidates, max_workers,
                   iteration, current_candidates, current_prompt,
                   candidate_prompts, prior_constraint_result,
                   prior_candidate_errors, constraint_history,
                   last_snapped_layout, futures, candidate_outcomes,
                   candidate_errors, selected, raised,
                   generate_calls, selected_log, dispatch_log, collect_log>>

BuildFeedback ==
    /\ pc = "check"
    /\ ~VerdictPassed(ValueOf(selected).verdict)
    /\ current_prompt' = build_feedback_prompt(
                             OriginalPrompt, ValueOf(selected).layout,
                             ValueOf(selected).verdict)
    /\ pc' = "loop"
    /\ UNCHANGED <<nonOrchVars, max_iterations, parallel_candidates, max_workers,
                   iteration, current_candidates, candidate_prompts,
                   prior_constraint_result, prior_candidate_errors,
                   constraint_history, last_snapped_layout, futures,
                   candidate_outcomes, candidate_errors, selected, result,
                   raised, generate_calls, selected_log, dispatch_log, collect_log>>

\* the for loop ran out of iterations
ReturnExhausted ==
    /\ pc = "loop"
    /\ range_exhausted(iteration, max_iterations)
    /\ result' = Some(ExhaustedResult(last_snapped_layout, max_iterations,
                                      constraint_history))
    /\ pc' = "returned"
    /\ UNCHANGED <<nonOrchVars, max_iterations, parallel_candidates, max_workers,
                   iteration, current_candidates, current_prompt,
                   candidate_prompts, prior_constraint_result,
                   prior_candidate_errors, constraint_history,
                   last_snapped_layout, futures, candidate_outcomes,
                   candidate_errors, selected, raised,
                   generate_calls, selected_log, dispatch_log, collect_log>>

Next ==
    \/ Entry
    \/ BeginIteration
    \/ InlineCandidateReturns
    \/ InlineCandidateRaises
    \/ WorkerStartsCandidate
    \/ CandidateReturns
    \/ CandidateRaises
    \/ PoolDone
    \/ RaiseAllCandidatesFailed
    \/ SelectBest
    \/ ReturnSuccess
    \/ BuildFeedback
    \/ ReturnExhausted

Spec == Init /\ [][Next]_vars

\* the function's own steps are taken one after the other, the pool's
\* workers get to run, and every candidate's call returns or raises
SpecFair == Spec /\ WF_vars(Next)

\* ======================================================================
\* _call_gemini_with_retry / _call_gemini_with_timeout
\* (app/integrations/layout_generator.py)
\* ======================================================================

\* exception classes the SDK call can raise; ConnectionError and
\* TimeoutError are OSErrors
SdkExceptionClasses ==
    {"RuntimeError", "ConnectionError", "OSError", "TimeoutError",
     "ValueError"}

\* raise RuntimeError("Gemini call timed out ...") from FuturesTimeoutError
TimeoutFailure == [class |-> "RuntimeError", origin |-> "timeout"]
SdkException(class) == [class |-> class, origin |-> "sdk"]

\* "except FuturesTimeoutError" around future.result: the wall-clock timeout
\* raises it, and where concurrent.futures.TimeoutError is the builtin
\* TimeoutError (Python 3.11 and later) the clause also catches a
\* TimeoutError raised by the call itself; anything else passes through
RaisedByFutureResult(exc) ==
    IF exc.class = "TimeoutError" /\ futures_timeout_is_builtin
    THEN TimeoutFailure
    ELSE exc

\* variant: every exception is handled by the retrying clause
CaughtAsTransientAny(exc) == exc.class \in SdkExceptionClasses

\* the "except RuntimeError" clause of _call_gemini_with_retry
CaughtAsTransient(exc) == exc.class = "RuntimeError"

\* variant: the delay keeps doubling past the cap
BackoffDelayUncapped(base, cap, att) == base * (2 ^ (att - 1))

\* delay = min(base_delay * (2 ** (attempt - 1)), max_delay)
BackoffDelay(base, cap, att) == Min2(base * (2 ^ (att - 1)), cap)

\* variant: the initial attempt is not counted
AttemptsWithoutInitial == max_retries

\* attempts = max_retries + 1
attempts == max_retries + 1

\* the orchestrator is not running while one retry call is followed
OrchIdle ==
    /\ max_iterations = 0
    /\ parallel_candidates = 0
    /\ max_workers = 0
    /\ pc = "idle"
    /\ iteration = 0
    /\ current_candidates = 0
    /\ current_prompt = OriginalPrompt
    /\ candidate_prompts = <<>>
    /\ prior_constraint_result = None
    /\ prior_candidate_errors = 0
    /\ constraint_history = <<>>
    /\ last_snapped_layout = None
    /\ futures = <<>>
    /\ candidate_outcomes = <<>>
    /\ candidate_errors = <<>>
    /\ selected = None
    /\ result = None
    /\ raised = None
    /\ generate_calls = 0
    /\ selected_log = <<>>
    /\ dispatch_log = <<>>
    /\ collect_log = <<>>

InitRetry ==
    /\ OrchIdle
    /\ FanoutIdle
    /\ ValidateIdle
    /\ SnapIdle
    /\ JobIdle
    /\ max_retries \in 0..MaxRetries
    /\ base_delay \in 1..MaxBaseDelay
    /\ max_delay \in 1..MaxDelayCap
    /\ futures_timeout_is_builtin \in BOOLEAN
    /\ r_pc = "loop"
    /\ attempt = 0
    /\ last_exc = None
    /\ svc = "none"
    /\ svc_exc = None
    /\ future_outcome = None
    /\ sleeps = <<>>
    /\ r_result = None
    /\ service_calls = 0
    /\ attempt_log = <<>>

\* for attempt in range(1, attempts + 1): enter _call_gemini_with_timeout,
\* which submits generate_content to a fresh one-thread executor.  The
\* external call either will complete at some time or never returns.
SubmitCall ==
    /\ r_pc = "loop"
    /\ attempt < attempts
    /\ attempt' = attempt + 1
    /\ svc' \in {"running", "hung"}
    /\ svc_exc' = None
    /\ future_outcome' = None
    /\ service_calls' = service_calls + 1
    /\ r_pc' = "waiting"
    /\ UNCHANGED <<nonRetryVars, max_retries, base_delay, max_delay,
                   futures_timeout_is_builtin,
                   last_exc, sleeps, r_result, attempt_log>>

\* the external call returns a response (on the executor's worker thread)
ServiceReturns ==
    /\ svc = "running"
    /\ svc' = "returned"
    /\ UNCHANGED <<nonRetryVars, max_retries, base_delay, max_delay,
                   futures_timeout_is_builtin, r_pc,
                   attempt, last_exc, svc_exc, future_outcome, sleeps,
                   r_result, service_calls, attempt_log>>

\* the external call raises
ServiceRaises ==
    /\ svc = "running"
    /\ \E class \in SdkExceptionClasses :
          svc_exc' = Some(SdkException(class))
    /\ svc' = "raised"
    /\ UNCHANGED <<nonRetryVars, max_retries, base_delay, max_delay,
                   futures_timeout_is_builtin, r_pc,
                   attempt, last_exc, future_outcome, sleeps,
                   r_result, service_calls, attempt_log>>

\* future.result(timeout=...) hands over the finished call's outcome
FutureResultReady ==
    /\ r_pc = "waiting"
    /\ svc \in {"returned", "raised"}
    /\ future_outcome' =
          IF svc = "returned" THEN Some([kind |-> "response", exc |-> None])
          ELSE Some([kind |-> "exception",
                     exc |-> Some(RaisedByFutureResult(ValueOf(svc_exc)))])
    /\ r_pc' = "shutdown"
    /\ UNCHANGED <<nonRetryVars, max_retries, base_delay, max_delay,
                   futures_timeout_is_builtin,
                   attempt, last_exc, svc, svc_exc, sleeps,
                   r_result, service_calls, attempt_log>>

\* timeout_seconds elapse before the call is done: FuturesTimeoutError is
\* turned into the timeout RuntimeError, still inside the with block
TimeoutElapses ==
    /\ r_pc = "waiting"
    /\ svc \in {"running", "hung"}
    /\ future_outcome' =
          Some([kind |-> "exception", exc |-> Some(TimeoutFailure)])
    /\ r_pc' = "shutdown"
    /\ UNCHANGED <<nonRetryVars, max_retries, base_delay, max_delay,
                   futures_timeout_is_builtin,
                   attempt, last_exc, svc, svc_exc, sleeps,
                   r_result, service_calls, attempt_log>>

\* ThreadPoolExecutor.__exit__ is shutdown(wait=True): it joins the worker
\* thread, so the with block is left only once the submitted call is over
WorkerThreadJoined == svc \in {"returned", "raised"}

ExecutorShutdown ==
    /\ r_pc = "shutdown"
    /\ WorkerThreadJoined
    /\ attempt_log' = Append(attempt_log, ValueOf(future_outcome))
    /\ r_pc' = "handle"
    /\ UNCHANGED <<nonRetryVars, max_retries, base_delay, max_delay,
                   futures_timeout_is_builtin,
                   attempt, last_exc, svc, svc_exc, future_outcome, sleeps,
                   r_result, service_calls>>

\* return _call_gemini_with_timeout(...)
HandleResponse ==
    /\ r_pc = "handle"
    /\ ValueOf(future_outcome).kind = "response"
    /\ r_result' = Some([kind |-> "returned", attempt |-> attempt,
                         cause |-> None])
    /\ r_pc' = "done"
    /\ UNCHANGED <<nonRetryVars, max_retries, base_delay, max_delay,
                   futures_timeout_is_builtin,
                   attempt, last_exc, svc, svc_exc, future_outcome, sleeps,
                   service_calls, attempt_log>>

\* except RuntimeError: remember it, back off unless this was the last try
HandleTransient ==
    /\ r_pc = "handle"
    /\ ValueOf(future_outcome).kind = "exception"
    /\ CaughtAsTransient(ValueOf(ValueOf(future_outcome).exc))
    /\ last_exc' = Some([attempt |-> attempt,
                         exc |-> ValueOf(ValueOf(future_outcome).exc)])
    /\ IF attempt < attempts
       THEN sleeps' = Append(sleeps,
                             BackoffDelay(base_delay, max_delay, attempt))
       ELSE UNCHANGED sleeps
    /\ r_pc' = "loop"
    /\ UNCHANGED <<nonRetryVars, max_retries, base_delay, max_delay,
                   futures_timeout_is_builtin,
                   attempt, svc, svc_exc, future_outcome,
                   r_result, service_calls, attempt_log>>

\* except Exception: wrap and raise at once
HandlePermanent ==
    /\ r_pc = "handle"
    /\ ValueOf(future_outcome).kind = "exception"
    /\ ~CaughtAsTransient(ValueOf(ValueOf(future_outcome).exc))
    /\ r_result' = Some([kind |-> "raised_permanent", attempt |-> attempt,
                         cause |-> Some([attempt |-> attempt,
                            exc |-> ValueOf(ValueOf(future_outcome).exc)])])
    /\ r_pc' = "done"
    /\ UNCHANGED <<nonRetryVars, max_retries, base_delay, max_delay,
                   futures_timeout_is_builtin,
                   attempt, last_exc, svc, svc_exc, future_outcome, sleeps,
                   service_calls, attempt_log>>

\* the for loop is over: raise "... failed after N attempts" from last_exc
RaiseExhausted ==
    /\ r_pc = "loop"
    /\ attempt >= attempts
    /\ r_result' = Some([kind |-> "raised_exhausted", attempt |-> attempt,
                         cause |-> last_exc])
    /\ r_pc' = "done"
    /\ UNCHANGED <<nonRetryVars, max_retries, base_delay, max_delay,
                   futures_timeout_is_builtin,
                   attempt, last_exc, svc, svc_exc, future_outcome, sleeps,
                   service_calls, attempt_log>>

NextRetry ==
    \/ SubmitCall
    \/ ServiceReturns
    \/ ServiceRaises
    \/ FutureResultReady
    \/ TimeoutElapses
    \/ ExecutorShutdown
    \/ HandleResponse
    \/ HandleTransient
    \/ HandlePermanent
    \/ RaiseExhausted

SpecRetry == InitRetry /\ [][NextRetry]_vars

\* the calling thread always gets to run; the external service owes nothing
SpecRetryFair ==
    /\ SpecRetry
    /\ WF_vars(SubmitCall)
    /\ WF_vars(FutureResultReady)
    /\ WF_vars(TimeoutElapses)
    /\ WF_vars(ExecutorShutdown)
    /\ WF_vars(HandleResponse)
    /\ WF_vars(HandleTransient)
    /\ WF_vars(HandlePermanent)
    /\ WF_vars(RaiseExhausted)

\* ======================================================================
\* _compute_adaptive_candidates called on its own (specification
\* SpecFanout), and next to runs of generate_validated_layout
\* (specification SpecFanoutAndRun)
\* ======================================================================
\* verdicts a prior iteration can hand over: only the severities count
PriorViolations ==
    {ConstraintViolation("ROOM_OVERLAP", "error", <<>>),
     ConstraintViolation("FIXTURE_OUTSIDE_ROOM", "warning", <<>>)}
PriorVerdicts ==
    {ConstraintResult(v) : v \in SeqsUpTo(PriorViolations, MaxPriorViolations)}

\* the arguments: the failure count is that of the prior iteration's
\* candidates, so it does not exceed their number
InitFanout ==
    /\ OrchIdle
    /\ RetryIdle
    /\ ValidateIdle
    /\ SnapIdle
    /\ JobIdle
    /\ fo_pc = "call"
    /\ fo_requested \in 0..MaxRequested
    /\ fo_prior_result \in {None} \cup {Some(v) : v \in PriorVerdicts}
    /\ fo_prior_total \in 0..MaxPriorCandidates
    /\ fo_prior_errors \in 0..fo_prior_total
    /\ fo_min \in 0..MaxLimit
    /\ fo_max \in 0..MaxLimit
    /\ fo_return = None

ComputeAdaptiveCandidates ==
    /\ fo_pc = "call"
    /\ fo_return' = Some(compute_adaptive_candidates(
                             fo_requested, fo_prior_result, fo_prior_errors,
                             fo_prior_total, fo_min, fo_max))
    /\ fo_pc' = "returned"
    /\ UNCHANGED <<nonFanoutVars, fo_requested, fo_prior_result,
                   fo_prior_errors, fo_prior_total, fo_min, fo_max>>

NextFanout == ComputeAdaptiveCandidates

SpecFanout == InitFanout /\ [][NextFanout]_vars

\* either a stand-alone call or a run of the orchestrator
SpecFanoutAndRun == (InitFanout \/ Init) /\ [][NextFanout \/ Next]_vars

\* ======================================================================
\* validate_layout called on its own (specification SpecValidate)
\* ======================================================================
InitValidate ==
    /\ OrchIdle
    /\ RetryIdle
    /\ FanoutIdle
    /\ SnapIdle
    /\ JobIdle
    /\ vl_pc = "call"
    /\ vl_layout \in {Some(layout) : layout \in Layouts}
    /\ vl_result = None

ValidateLayout ==
    /\ vl_pc = "call"
    /\ build_wall_index_exception(ValueOf(vl_layout)) = None
    /\ vl_result' = Some(validate_layout(ValueOf(vl_layout)))
    /\ vl_pc' = "returned"
    /\ UNCHANGED <<nonValidateVars, vl_layout>>

\* validate_layout catches nothing: what _build_wall_index raises leaves it
ValidateLayoutRaises ==
    /\ vl_pc = "call"
    /\ build_wall_index_exception(ValueOf(vl_layout)) # None
    /\ vl_result' = Some([raised |->
                             ValueOf(build_wall_index_exception(
                                         ValueOf(vl_layout)))])
    /\ vl_pc' = "raised"
    /\ UNCHANGED <<nonValidateVars, vl_layout>>

NextValidate == ValidateLayout \/ ValidateLayoutRaises

SpecValidate == InitValidate /\ [][NextValidate]_vars

\* either a stand-alone validation or a run of the orchestrator
SpecValidateAndRun == (InitValidate \/ Init) /\ [][NextValidate \/ Next]_vars

\* ======================================================================
\* Grid snapping (app/services/grid_snapper.py)
\* ======================================================================
\* A length is a float.  The floats considered are the whole numbers of
\* millimetres n, written <<n, 0>>, and for n # 0 the float next to n on
\* the side of zero, written <<n, -1>>: it differs from n by one unit in
\* the last place and takes part in the rounding of "ratio + 0.5".
Exact(n) == <<n, 0>>
TowardZero(n) == <<n, -1>>
Abs(n) == IF n < 0 THEN -n ELSE n

RECURSIVE PowerOfTwoUpTo(_)
\* the largest power of two that is at most g (g >= 1)
PowerOfTwoUpTo(g) == IF g < 2 THEN 1 ELSE 2 * PowerOfTwoUpTo(g \div 2)
\* For the float v just below g / 2 the quotient v / g is a float just
\* below 0.5.  When it is the nearest one, 0.5 - 2^-54, the sum with 0.5
\* lies halfway between two floats and is rounded to 1.0; when it is the
\* next one, 0.5 - 2^-53, the sum is exact.  The first happens when g is a
\* power of two or more than 4/3 of the power of two below it.
HalfUlpLost(g) ==
    g = PowerOfTwoUpTo(g) \/ 3 * g > 4 * PowerOfTwoUpTo(g)

\* variant: floor(ratio) + 1, the next grid line above
SnapToNextLine(value, grid_mm) ==
    Exact(((IF value[1] >= 0 THEN value[1] \div grid_mm
            ELSE -((-value[1] + grid_mm - 1) \div grid_mm)) + 1) * grid_mm)

\* snap_to_grid (for grid_mm > 0): floor(ratio + 0.5) for ratio >= 0 and
\* ceil(ratio - 0.5) below, times the pitch.  A float just short of a
\* half-way point goes to the line on the side of zero, but for the one
\* short of the first half-way point the sum has already become 1.0.
snap_to_grid(value, grid_mm) ==
    LET a == Abs(value[1])
        steps == (2 * a + grid_mm) \div (2 * grid_mm)
        halfway == (2 * a + grid_mm) % (2 * grid_mm) = 0
        snapped_ratio ==
            IF value[2] = 0 \/ ~halfway THEN steps
            ELSE IF steps = 1 /\ HalfUlpLost(grid_mm) THEN 1
            ELSE steps - 1
    IN Exact(Sign(value[1]) * snapped_ratio * grid_mm)

\* _shoelace_area_sqm of a ring of exact points: abs(area_twice) / 2 /
\* 1_000_000, kept as the whole number abs(area_twice), i.e. in units of
\* half a square millimetre
shoelace_area_sqm(boundary) ==
    Abs(SumSeq([idx \in 1..(Len(boundary) - 1) |->
                   boundary[idx][1][1] * boundary[idx + 1][2][1]
                   - boundary[idx + 1][1][1] * boundary[idx][2][1]]))

\* isinstance(value, (int, float)) on a perimeter wall's entry
is_number(value) == value.kind = "num"

\* the layout as the snapper sees it
SnapperLayout(rooms, interior_walls, fixtures, perimeter_walls, page_dimensions_mm, grid_size_mm) ==
    [rooms |-> rooms, interior_walls |-> interior_walls,
     fixtures |-> fixtures, perimeter_walls |-> perimeter_walls,
     page_dimensions_mm |-> page_dimensions_mm,
     grid_size_mm |-> grid_size_mm]
SizedRoom(name, boundary, area_sqm) ==
    [name |-> name, room_type |-> "operatory", boundary |-> boundary,
     area_sqm |-> area_sqm]

\* snap_layout_to_grid (for grid_mm > 0): a copy with the wall end points,
\* the fixture centres and sizes, the room rings, the numeric perimeter
\* entries and the page snapped, the room areas recomputed from the
\* snapped rings and the pitch recorded
snap_layout_to_grid(layout, grid_mm) ==
    LET snap(v) == snap_to_grid(v, grid_mm)
        snapped_wall(wall) ==
            [wall EXCEPT !.x1 = snap(@), !.y1 = snap(@),
                         !.x2 = snap(@), !.y2 = snap(@)]
        snapped_fixture(fixture) ==
            [fixture EXCEPT !.center_x = snap(@), !.center_y = snap(@),
                            !.width_mm = snap(@), !.depth_mm = snap(@)]
        snapped_boundary(boundary) ==
            [k \in DOMAIN boundary |->
                <<snap(boundary[k][1]), snap(boundary[k][2])>>]
        snapped_room(room) ==
            [room EXCEPT !.boundary = snapped_boundary(room.boundary),
                         !.area_sqm =
                             shoelace_area_sqm(snapped_boundary(room.boundary))]
        entry(value) == IF is_number(value) THEN Num(snap(value.v)) ELSE value
        snapped_perimeter(wall) ==
            [wall EXCEPT !.x1 = entry(@), !.y1 = entry(@), !.x2 = entry(@),
                         !.y2 = entry(@), !.thickness_mm = entry(@)]
    IN [rooms |-> [k \in DOMAIN layout.rooms |->
                      snapped_room(layout.rooms[k])],
        interior_walls |-> [k \in DOMAIN layout.interior_walls |->
                               snapped_wall(layout.interior_walls[k])],
        fixtures |-> [k \in DOMAIN layout.fixtures |->
                         snapped_fixture(layout.fixtures[k])],
        perimeter_walls |-> [k \in DOMAIN layout.perimeter_walls |->
                                snapped_perimeter(layout.perimeter_walls[k])],
        page_dimensions_mm |-> <<snap(layout.page_dimensions_mm[1]),
                                 snap(layout.page_dimensions_mm[2])>>,
        grid_size_mm |-> grid_mm]

\* ---- the lengths, pitches and layouts snapped
SnapLengths ==
    {Exact(n) : n \in {-75, -30, 0, 10, 25, 30, 100}}
    \cup {TowardZero(25), TowardZero(-25), TowardZero(75)}
SnapSizes == {Exact(20), Exact(25), Exact(60), TowardZero(25)}
GridPitches == {0, 20, 50}
SnapRing(xa, ya, xb, yb) ==
    <<(<<xa, ya>>), (<<xb, ya>>), (<<xb, yb>>), (<<xa, yb>>), (<<xa, ya>>)>>
SnapLayouts ==
    {SnapperLayout(
         <<SizedRoom("Room A",
                     SnapRing(Exact(0), Exact(0), room_x, Exact(100)), 1)>>,
         <<InteriorWall("iw_1", wall_x, Exact(0), Exact(30), Exact(100), 100)>>,
         <<Fixture("f_1", "Room A", Exact(30), wall_x, size, Exact(60), 0)>>,
         <<PerimeterWall(None, entry, Num(Exact(0)), Junk, Missing,
                         Num(Exact(20)), None)>>,
         <<page_x, Exact(1000)>>, 50) :
        room_x \in {Exact(10), Exact(30), Exact(100), TowardZero(25)},
        wall_x \in SnapLengths,
        size \in SnapSizes,
        entry \in {Num(Exact(30)), Num(TowardZero(-25)), Junk},
        page_x \in {Exact(1000), Exact(20), TowardZero(25)}}
    \cup {SnapperLayout(<<>>, <<>>, <<>>, <<>>,
                        <<Exact(1000), Exact(1000)>>, 50)}

InitSnap ==
    /\ OrchIdle
    /\ RetryIdle
    /\ FanoutIdle
    /\ ValidateIdle
    /\ JobIdle
    /\ sn_pc = "call"
    /\ sn_layout \in {Some(layout) : layout \in SnapLayouts}
    /\ sn_grid \in GridPitches
    /\ sn_once = None
    /\ sn_twice = None

\* snap_to_grid raises ValueError for a pitch that is not positive; the
\* page dimensions are snapped for every layout
SnapRaises ==
    /\ sn_pc = "call"
    /\ sn_grid <= 0
    /\ sn_pc' = "raised"
    /\ UNCHANGED <<nonSnapVars, sn_layout, sn_grid, sn_once, sn_twice>>

SnapLayout ==
    /\ sn_pc = "call"
    /\ sn_grid > 0
    /\ sn_once' = Some(snap_layout_to_grid(ValueOf(sn_layout), sn_grid))
    /\ sn_pc' = "snapped"
    /\ UNCHANGED <<nonSnapVars, sn_layout, sn_grid, sn_twice>>

\* the result is snapped again with the same pitch
SnapAgain ==
    /\ sn_pc = "snapped"
    /\ sn_twice' = Some(snap_layout_to_grid(ValueOf(sn_once), sn_grid))
    /\ sn_pc' = "snapped_twice"
    /\ UNCHANGED <<nonSnapVars, sn_layout, sn_grid, sn_once>>

NextSnap == SnapRaises \/ SnapLayout \/ SnapAgain

SpecSnap == InitSnap /\ [][NextSnap]_vars

\* ======================================================================
\* The job runner: run_job over the async_jobs table
\* ======================================================================
MaxJobs == 1
MaxCalls == 2

VALID_JOB_TYPES == {"ingest", "generate"}
VALID_STATUSES == {"queued", "running", "succeeded", "failed"}

\* the exception classes the handlers raise; all of them derive from
\* Exception
ExceptionClasses == {"ValueError", "RuntimeError", "KeyError"}

\* an AsyncJob row; started_at, finished_at and updated_at are left out
AsyncJob(job_type, status, payload) ==
    [job_type |-> job_type, status |-> status, payload |-> payload,
     result_ref |-> None, error_message |-> None]

\* what a handler does: it returns a result_ref or raises
Returns(result_ref) == [kind |-> "returns", result_ref |-> result_ref]
Raises(class, message) ==
    [kind |-> "raises", class |-> class, message |-> message]

\* _parse_payload raises ValueError for a job without payload
parse_payload_raises(job) == job.payload = None

\* _run_ingest_job: the payload is parsed, then ingest_pdf returns or
\* raises, and what it raises is raised again
run_ingest_job(job) ==
    IF parse_payload_raises(job)
    THEN {Raises("ValueError", "has no payload")}
    ELSE {Returns([result_type |-> "floorplan"]),
          Raises("RuntimeError", "ingest_pdf")}

\* _run_generate_job: the payload is parsed and its keys are read, then
\* generate_validated_layout runs; a result with success = false is turned
\* into a RuntimeError carrying the result's error_message
run_generate_job(job) ==
    IF parse_payload_raises(job)
    THEN {Raises("ValueError", "has no payload")}
    ELSE {Returns([result_type |-> "bom"]),
          Raises("RuntimeError", "failed validation"),
          Raises("KeyError", "spatial_graph")}

\* the dispatch on job_type inside the try block of run_job
dispatch(job) ==
    IF job.job_type = "ingest" THEN run_ingest_job(job)
    ELSE IF job.job_type = "generate" THEN run_generate_job(job)
    ELSE {Raises("ValueError", "Unknown job_type")}

\* variant: the except clause names RuntimeError
CatchesRuntimeErrorOnly(class) == class = "RuntimeError"

\* except Exception
is_caught(class) == class \in ExceptionClasses

\* f"{type(exc).__name__}: {exc}"
format_error(outcome) == <<outcome.class, ": ", outcome.message>>

get_job_by_id(table, job_id) ==
    IF job_id \in DOMAIN table THEN Some(table[job_id]) ELSE None

\* the three lifecycle updates: a missing row is left alone, an existing one
\* gets the new status whatever its status was
mark_job_running(table, job_id) ==
    IF job_id \notin DOMAIN table THEN table
    ELSE [table EXCEPT ![job_id].status = "running"]

mark_job_succeeded(table, job_id, result_ref) ==
    IF job_id \notin DOMAIN table THEN table
    ELSE [table EXCEPT ![job_id].status = "succeeded",
                       ![job_id].result_ref = Some(result_ref)]

mark_job_failed(table, job_id, error_message) ==
    IF job_id \notin DOMAIN table THEN table
    ELSE [table EXCEPT ![job_id].status = "failed",
                       ![job_id].error_message = Some(error_message)]

\* a run_job call: the id it was given, where it stands, the job dict it
\* loaded and what its handler did
Run(job_id, at, job, outcome) ==
    [job_id |-> job_id, pc |-> at, job |-> job, outcome |-> outcome]

\* the calls made so far: run_job calls and lifecycle calls of other callers
CallsMade == Len(runs) + repository_calls

JobIds == 1..(MaxJobs + 1)
Payloads == {None, Some("json")}

\* the table starts empty or with one row that was not written by create_job
InitJobs ==
    /\ OrchIdle
    /\ RetryIdle
    /\ FanoutIdle
    /\ ValidateIdle
    /\ SnapIdle
    /\ jobs \in {<<>>, <<AsyncJob("mystery", "queued", None)>>}
    /\ runs = <<>>
    /\ repository_calls = 0

\* create_job: a job of a known type is inserted as queued
CreateJob(job_type, payload) ==
    /\ Len(jobs) < MaxJobs
    /\ job_type \in VALID_JOB_TYPES
    /\ jobs' = Append(jobs, AsyncJob(job_type, "queued", payload))
    /\ UNCHANGED <<nonJobVars, runs, repository_calls>>

\* run_job with an id that has no row: logged, returns
RunJobUnknown(job_id) ==
    /\ CallsMade < MaxCalls
    /\ get_job_by_id(jobs, job_id) = None
    /\ runs' = Append(runs, Run(job_id, "returned", None, None))
    /\ UNCHANGED <<nonJobVars, jobs, repository_calls>>

\* run_job loads the job
RunJobLoad(job_id) ==
    /\ CallsMade < MaxCalls
    /\ get_job_by_id(jobs, job_id) # None
    /\ runs' = Append(runs, Run(job_id, "loaded",
                                get_job_by_id(jobs, job_id), None))
    /\ UNCHANGED <<nonJobVars, jobs, repository_calls>>

\* mark_job_running, before the try block
RunJobMarkRunning(r) ==
    /\ r \in DOMAIN runs
    /\ runs[r].pc = "loaded"
    /\ jobs' = mark_job_running(jobs, runs[r].job_id)
    /\ runs' = [runs EXCEPT ![r].pc = "marked"]
    /\ UNCHANGED <<nonJobVars, repository_calls>>

\* the handler for the loaded job runs
RunJobHandle(r) ==
    /\ r \in DOMAIN runs
    /\ runs[r].pc = "marked"
    /\ \E outcome \in dispatch(ValueOf(runs[r].job)) :
          runs' = [runs EXCEPT ![r].pc = "handled",
                               ![r].outcome = Some(outcome)]
    /\ UNCHANGED <<nonJobVars, jobs, repository_calls>>

\* the outcome is persisted and run_job returns; an exception the except
\* clause does not catch leaves run_job
RunJobSettle(r) ==
    /\ r \in DOMAIN runs
    /\ runs[r].pc = "handled"
    /\ LET outcome == ValueOf(runs[r].outcome)
           job_id == runs[r].job_id
       IN IF outcome.kind = "returns"
          THEN /\ jobs' = mark_job_succeeded(jobs, job_id, outcome.result_ref)
               /\ runs' = [runs EXCEPT ![r].pc = "returned"]
          ELSE IF is_caught(outcome.class)
          THEN /\ jobs' = mark_job_failed(jobs, job_id, format_error(outcome))
               /\ runs' = [runs EXCEPT ![r].pc = "returned"]
          ELSE /\ jobs' = jobs
               /\ runs' = [runs EXCEPT ![r].pc = "raised"]
    /\ UNCHANGED <<nonJobVars, repository_calls>>

\* the repository's lifecycle functions called by another caller
MarkJobRunning(job_id) ==
    /\ CallsMade < MaxCalls
    /\ jobs' = mark_job_running(jobs, job_id)
    /\ repository_calls' = repository_calls + 1
    /\ UNCHANGED <<nonJobVars, runs>>

MarkJobSucceeded(job_id, result_ref) ==
    /\ CallsMade < MaxCalls
    /\ jobs' = mark_job_succeeded(jobs, job_id, result_ref)
    /\ repository_calls' = repository_calls + 1
    /\ UNCHANGED <<nonJobVars, runs>>

MarkJobFailed(job_id, error_message) ==
    /\ CallsMade < MaxCalls
    /\ jobs' = mark_job_failed(jobs, job_id, error_message)
    /\ repository_calls' = repository_calls + 1
    /\ UNCHANGED <<nonJobVars, runs>>

NextJobs ==
    \/ \E job_type \in VALID_JOB_TYPES, payload \in Payloads :
          CreateJob(job_type, payload)
    \/ \E job_id \in JobIds : RunJobUnknown(job_id)
    \/ \E job_id \in JobIds : RunJobLoad(job_id)
    \/ \E r \in 1..MaxCalls : RunJobMarkRunning(r)
    \/ \E r \in 1..MaxCalls : RunJobHandle(r)
    \/ \E r \in 1..MaxCalls : RunJobSettle(r)
    \/ \E job_id \in JobIds : MarkJobRunning(job_id)
    \/ \E job_id \in JobIds : MarkJobSucceeded(job_id, [result_type |-> "bom"])
    \/ \E job_id \in JobIds : MarkJobFailed(job_id, <<"RuntimeError", ": ", "manual">>)

SpecJobs == InitJobs /\ [][NextJobs]_vars

\* ======================================================================
\* Properties of generate_validated_layout (specification Spec)
\* ======================================================================
ArgsValid ==
    max_iterations >= 1 /\ parallel_candidates >= 1 /\ max_workers >= 1

Terminated == pc \in {"returned", "raised"}

\* rank key of a verdict, counted on its violation list
ErrorsOf(verdict) ==
    Cardinality({k \in DOMAIN verdict.violations :
                    verdict.violations[k].severity = "error"})
WarningsOf(verdict) ==
    Cardinality({k \in DOMAIN verdict.violations :
                    verdict.violations[k].severity = "warning"})
RankLeq(v, w) ==
    \/ ErrorsOf(v) < ErrorsOf(w)
    \/ ErrorsOf(v) = ErrorsOf(w) /\ WarningsOf(v) <= WarningsOf(w)

\* every collected iteration had a successful candidate
EveryIterationHadSuccess ==
    \A k \in DOMAIN collect_log : collect_log[k].ok >= 1
\* some collected iteration had only failed candidates
SomeIterationAllFailed ==
    \E k \in DOMAIN collect_log : collect_log[k].ok = 0

\* C1: a run with valid arguments in which every iteration had a successful
\* candidate and every selected verdict failed ends by returning (not
\* raising) after exactly max_iterations iterations, with success = false,
\* iterations_used = max_iterations, the layout selected in the last
\* iteration and the "failed validation after max_iterations attempts"
\* message.
C1_ExhaustionResult ==
    (/\ Terminated
     /\ ArgsValid
     /\ EveryIterationHadSuccess
     /\ \A k \in DOMAIN selected_log : ~selected_log[k].verdict.passed)
    => /\ pc = "returned"
       /\ raised = None
       /\ iteration = max_iterations
       /\ Len(dispatch_log) = max_iterations
       /\ Len(selected_log) = max_iterations
       /\ ValueOf(result).success = FALSE
       /\ ValueOf(result).iterations_used = max_iterations
       /\ ValueOf(result).layout =
             Some(selected_log[max_iterations].layout)
       /\ ValueOf(result).error_message =
             Some([text |-> "Layout failed validation after N attempts",
                   n |-> max_iterations])

C1_Witness ==
    /\ pc = "returned"
    /\ max_iterations = 2
    /\ ~ValueOf(result).success
    /\ Len(selected_log) = 2
    /\ selected_log[1].layout # selected_log[2].layout
    /\ \E k \in DOMAIN collect_log : collect_log[k].failed >= 1

\* C2: the run stops at the first iteration k whose selected verdict
\* passed: k is the last iteration started, nothing is dispatched after
\* it, the result is success = true with iterations_used = k and that
\* iteration's layout, and in serial mode the generator has been called
\* exactly k times.
C2_StopsAtFirstPass ==
    \A k \in DOMAIN selected_log :
        selected_log[k].verdict.passed
        => /\ k = Len(selected_log)
           /\ iteration = k
           /\ Len(dispatch_log) = k
           /\ generate_calls = SumSeq(dispatch_log)
           /\ pc \in {"check", "returned"}
           /\ raised = None
           /\ pc = "returned"
              => /\ ValueOf(result).success = TRUE
                 /\ ValueOf(result).iterations_used = k
                 /\ ValueOf(result).layout = Some(selected_log[k].layout)
           /\ parallel_candidates = 1 => generate_calls = k

C2_Witness ==
    /\ pc = "returned"
    /\ ValueOf(result).success
    /\ ValueOf(result).iterations_used = 2
    /\ parallel_candidates = 1
    /\ generate_calls = 2
    /\ ValueOf(selected).verdict.violations # <<>>

\* C3: when every candidate of an iteration failed, that iteration is the
\* last one: the run raises with the first captured candidate exception as
\* cause, no further iteration starts, no candidate is dispatched again and
\* no GenerationResult is returned.
C3_AllFailedIsFatal ==
    \A k \in DOMAIN collect_log :
        collect_log[k].ok = 0
        => /\ k = iteration
           /\ Len(dispatch_log) = k
           /\ generate_calls = SumSeq(dispatch_log)
           /\ Len(candidate_errors) = dispatch_log[k]
           /\ pc \in {"collected", "raised"}
           /\ result = None
           /\ pc = "raised"
              => raised = Some([type |-> "RuntimeError",
                                cause |-> Some(candidate_errors[1])])

C3_Witness ==
    /\ pc = "raised"
    /\ iteration = 2
    /\ max_iterations > 1
    /\ Len(candidate_errors) = 2
    /\ candidate_errors[1].cand = 2
    /\ ValueOf(raised).cause = Some(CandidateId(2, 2))

\* C4 (as stated): an error is raised only when all candidates of some
\* iteration failed at generation.
C4_RaisesOnlyWhenAllFailed ==
    pc = "raised" => SomeIterationAllFailed

\* C4 (amended): with valid arguments an error is raised only when all
\* candidates of an iteration failed, and every other finished run returns
\* a GenerationResult; with an argument that is not positive the call
\* raises ValueError before any candidate is generated.
C4_RaisesOnlyWhenAllFailedOrBadArgs ==
    /\ pc = "raised"
       => \/ /\ ~ArgsValid
             /\ ValueOf(raised).type = "ValueError"
             /\ iteration = 0
             /\ generate_calls = 0
          \/ /\ ArgsValid
             /\ ValueOf(raised).type = "RuntimeError"
             /\ collect_log[iteration].ok = 0
    /\ (Terminated /\ ArgsValid /\ ~SomeIterationAllFailed)
       => (pc = "returned" /\ result # None /\ raised = None)
    /\ ~ArgsValid => pc \in {"entry", "raised"}

C4_Witness ==
    /\ pc = "returned"
    /\ ~ValueOf(result).success
    /\ \A k \in DOMAIN collect_log :
          collect_log[k].failed >= 1 /\ collect_log[k].ok >= 1

\* C5: the candidate selected in an iteration has a rank key (errors,
\* warnings) lexicographically less than or equal to that of every other
\* successful candidate of the iteration, in whatever order they completed.
C5_SelectedIsBest ==
    (iteration >= 1 /\ Len(selected_log) = iteration)
    => /\ \E n \in DOMAIN candidate_outcomes :
             candidate_outcomes[n] = selected_log[iteration]
       /\ \A n \in DOMAIN candidate_outcomes :
             RankLeq(selected_log[iteration].verdict,
                     candidate_outcomes[n].verdict)

C5_Witness ==
    /\ pc = "check"
    /\ Len(candidate_outcomes) = 2
    /\ ValueOf(selected) = candidate_outcomes[2]
    /\ ErrorsOf(candidate_outcomes[1].verdict) = 1
    /\ WarningsOf(candidate_outcomes[1].verdict) = 0
    /\ ErrorsOf(candidate_outcomes[2].verdict) = 0
    /\ WarningsOf(candidate_outcomes[2].verdict) = 1

\* C6: a winner is selected, and the run returns or raises, only after
\* every candidate dispatched in the iteration has completed and its
\* outcome has been gathered; no sibling is still queued or running.
C6_SelectAfterAllComplete ==
    ((iteration >= 1 /\ Len(selected_log) = iteration) \/ Terminated)
    => /\ \A i \in DOMAIN futures : futures[i].st = "collected"
       /\ ArgsValid =>
             Len(candidate_outcomes) + Len(candidate_errors)
                = current_candidates

C6_Witness ==
    /\ pc = "returned"
    /\ Len(futures) = 2
    /\ Len(candidate_outcomes) = 2
    /\ candidate_outcomes[1].verdict.passed
    /\ candidate_outcomes[1].verdict.violations # <<>>
    /\ ValueOf(selected) = candidate_outcomes[2]

\* C7: on every return, constraint_history has one verdict per iteration
\* executed (length = iterations_used), entry k is the verdict of the
\* candidate selected in iteration k, every entry before the last failed,
\* and success is true exactly when the last entry passed.
C7_HistoryMatchesIterations ==
    pc = "returned"
    => LET r == ValueOf(result)
           h == r.constraint_history
       IN /\ Len(h) = r.iterations_used
          /\ Len(h) = Len(selected_log)
          /\ Len(h) = iteration
          /\ Len(h) >= 1
          /\ \A k \in DOMAIN h : h[k] = selected_log[k].verdict
          /\ \A k \in 1..(Len(h) - 1) : ~h[k].passed
          /\ r.success = h[Len(h)].passed

C7_Witness ==
    /\ pc = "returned"
    /\ ValueOf(result).success
    /\ Len(ValueOf(result).constraint_history) = 2
    /\ ValueOf(result).constraint_history[1]
          # ValueOf(result).constraint_history[2]

\* ======================================================================
\* Properties of _call_gemini_with_timeout / _call_gemini_with_retry
\* (specifications SpecRetry and SpecRetryFair)
\* ======================================================================
LoggedException(i) == ValueOf(attempt_log[i].exc)
FailedTransiently(i) ==
    attempt_log[i].kind = "exception" /\ LoggedException(i).class = "RuntimeError"

\* C8: a service call that never returns is abandoned: the timeout call
\* still ends by raising the timeout failure (a liveness property, stated
\* for SpecRetryFair, where the calling thread always gets to run).
C8_HungCallIsAbandoned ==
    (svc = "hung")
    ~> (r_pc = "handle"
        /\ ValueOf(future_outcome).exc = Some(TimeoutFailure))

\* C9: when every attempt fails transiently (timeouts included) the service
\* is called exactly max_retries + 1 times, a backoff sleep happens exactly
\* max_retries times (one before each retry, none after the last attempt)
\* and the failure raised carries the last transient error; when an attempt
\* succeeds its response is returned and no further attempt is made.
C9_RetryUntilExhausted ==
    /\ (r_pc = "done" /\ \A i \in DOMAIN attempt_log : FailedTransiently(i))
       => /\ service_calls = max_retries + 1
          /\ Len(attempt_log) = max_retries + 1
          /\ Len(sleeps) = max_retries
          /\ ValueOf(r_result).kind = "raised_exhausted"
          /\ ValueOf(r_result).cause =
                Some([attempt |-> max_retries + 1,
                      exc |-> LoggedException(max_retries + 1)])
    /\ r_pc \in {"waiting", "shutdown", "handle"}
       => Len(sleeps) = service_calls - 1
    /\ \A i \in DOMAIN attempt_log :
          attempt_log[i].kind = "response"
          => /\ i = Len(attempt_log)
             /\ service_calls = i
             /\ r_pc \in {"handle", "done"}
             /\ r_pc = "done"
                => ValueOf(r_result) =
                      [kind |-> "returned", attempt |-> i, cause |-> None]

C9_Witness ==
    /\ r_pc = "done"
    /\ max_retries = 2
    /\ ValueOf(r_result).kind = "raised_exhausted"
    /\ Len(sleeps) = 2
    /\ service_calls = 3
    /\ \A i \in DOMAIN attempt_log :
          attempt_log[i].exc = Some(TimeoutFailure)

\* the attempt that logged entry i was the last one and was not followed
\* by a backoff sleep; the call ended by wrapping and raising its exception
EndsTheCallAtOnce(i) ==
    /\ i = Len(attempt_log)
    /\ service_calls = i
    /\ Len(sleeps) = i - 1
    /\ r_pc \in {"handle", "done"}
    /\ r_pc = "done"
       => ValueOf(r_result) =
             [kind |-> "raised_permanent", attempt |-> i,
              cause |-> Some([attempt |-> i, exc |-> LoggedException(i)])]

\* C10 (as stated): any exception of the service call other than a timeout
\* is permanent: never retried, no backoff sleep, wrapped and re-raised.
C10_NonTimeoutIsPermanent ==
    \A i \in DOMAIN attempt_log :
        (attempt_log[i].kind = "exception"
         /\ LoggedException(i).origin # "timeout")
        => EndsTheCallAtOnce(i)

\* C10 (amended): any exception of the service call that is neither a
\* RuntimeError nor a TimeoutError is permanent: the attempt it ends is the
\* last one, no backoff sleep follows it (one attempt and no sleep when it
\* is the first), and it is wrapped and re-raised at once.
C10_NonRuntimeErrorIsPermanent ==
    \A i \in DOMAIN attempt_log :
        (attempt_log[i].kind = "exception"
         /\ LoggedException(i).class \notin {"RuntimeError", "TimeoutError"})
        => EndsTheCallAtOnce(i)

C10_Witness ==
    /\ r_pc = "done"
    /\ max_retries = 2
    /\ service_calls = 1
    /\ sleeps = <<>>
    /\ ValueOf(r_result).kind = "raised_permanent"
    /\ LoggedException(1) = SdkException("ValueError")

\* the call logged as entry i ended on a connectivity failure of the SDK
FailedOnConnectivity(i) ==
    /\ attempt_log[i].kind = "exception"
    /\ LoggedException(i).class \in {"ConnectionError", "OSError"}

\* C11: a connectivity failure of the service call (ConnectionError,
\* OSError) is transient: it ends the whole call only as the last of the
\* max_retries + 1 attempts, by the "failed after N attempts" raise, and
\* never by an immediate raise while retries remain.
C11_ConnectivityIsRetried ==
    \A i \in DOMAIN attempt_log :
        (FailedOnConnectivity(i) /\ r_pc = "done" /\ i = Len(attempt_log))
        => /\ i = max_retries + 1
           /\ ValueOf(r_result).kind = "raised_exhausted"

\* C12: the k-th backoff sleep lasts min(base_delay * 2^(k-1), max_delay):
\* no sleep exceeds max_delay and every sleep below the cap is exactly
\* double the one before it.
C12_BackoffDoublesUpToCap ==
    \A k \in DOMAIN sleeps :
        /\ sleeps[k] <= max_delay
        /\ sleeps[k] = (IF base_delay * (2 ^ (k - 1)) <= max_delay
                        THEN base_delay * (2 ^ (k - 1))
                        ELSE max_delay)
        /\ (k > 1 /\ sleeps[k] < max_delay) => sleeps[k] = 2 * sleeps[k - 1]
        /\ k > 1 => sleeps[k] >= sleeps[k - 1]
        /\ FailedTransiently(k)

C12_Witness ==
    /\ r_pc = "done"
    /\ sleeps = <<1, 2, 3>>
    /\ max_delay = 3
    /\ service_calls = 4

\* ======================================================================
\* Properties of _compute_adaptive_candidates (specifications SpecFanout
\* and SpecFanoutAndRun)
\* ======================================================================
FanoutReturned == fo_pc = "returned"
FanoutLimitsOrdered == fo_min <= fo_max
WithinLimits(n, lo, hi) == lo <= n /\ n <= hi
\* n brought into the interval [lo, hi], for lo <= hi
ClampedTo(n, lo, hi) == IF n < lo THEN lo ELSE IF n > hi THEN hi ELSE n

\* C13 (as stated): whenever candidate_min <= candidate_max the value
\* returned lies in [candidate_min, candidate_max], and the number of
\* candidates dispatched in every iteration of a run lies in
\* [GENERATION_CANDIDATE_MIN, GENERATION_CANDIDATE_MAX].
C13_ResultWithinLimits ==
    /\ (FanoutReturned /\ FanoutLimitsOrdered)
       => WithinLimits(ValueOf(fo_return), fo_min, fo_max)
    /\ \A k \in DOMAIN dispatch_log :
          WithinLimits(dispatch_log[k], GENERATION_CANDIDATE_MIN,
                       GENERATION_CANDIDATE_MAX)

\* C13 (amended): in parallel mode (requested > 1) with candidate_min <=
\* candidate_max the value returned lies in [candidate_min,
\* candidate_max]; in serial mode (requested <= 1) it is 1 whatever the
\* limits are; under the default limits 1 and 4 the number of candidates
\* dispatched in every iteration of a run lies within them.
C13_ParallelResultWithinLimits ==
    /\ (FanoutReturned /\ FanoutLimitsOrdered /\ fo_requested > 1)
       => WithinLimits(ValueOf(fo_return), fo_min, fo_max)
    /\ (FanoutReturned /\ fo_requested <= 1) => ValueOf(fo_return) = 1
    /\ \A k \in DOMAIN dispatch_log :
          WithinLimits(dispatch_log[k], GENERATION_CANDIDATE_MIN,
                       GENERATION_CANDIDATE_MAX)

C13_Witness ==
    /\ FanoutReturned
    /\ fo_requested = 2
    /\ fo_min = 3
    /\ fo_max = 3
    /\ fo_prior_result # None
    /\ fo_prior_errors = 1
    /\ ValueOf(fo_return) = 3

\* C14: in parallel mode with a prior verdict, when at least one candidate
\* of the prior iteration failed at generation the value returned is
\* requested - 1 clamped to the limits, whatever the prior verdict holds
\* (warnings only included).
C14_ReducesOnProviderFailure ==
    (/\ FanoutReturned
     /\ FanoutLimitsOrdered
     /\ fo_requested > 1
     /\ fo_prior_result # None
     /\ fo_prior_errors >= 1)
    => ValueOf(fo_return) = ClampedTo(fo_requested - 1, fo_min, fo_max)

C14_Witness ==
    /\ FanoutReturned
    /\ fo_requested = 3
    /\ fo_min = 1
    /\ fo_max = 3
    /\ fo_prior_errors = 1
    /\ fo_prior_total = 2
    /\ fo_prior_result # None
    /\ ErrorsOf(ValueOf(fo_prior_result)) = 0
    /\ WarningsOf(ValueOf(fo_prior_result)) = 1
    /\ ValueOf(fo_return) = 2

\* C15: in parallel mode with a prior verdict and no generation failure in
\* the prior iteration, the value returned is requested + 1 clamped to the
\* limits when the verdict has no error and at least one warning, and
\* requested clamped to the limits when it has an error or no violation.
C15_IncreasesOnWarningsOnly ==
    (/\ FanoutReturned
     /\ FanoutLimitsOrdered
     /\ fo_requested > 1
     /\ fo_prior_result # None
     /\ fo_prior_errors = 0)
    => LET e == ErrorsOf(ValueOf(fo_prior_result))
           w == WarningsOf(ValueOf(fo_prior_result))
       IN /\ (e = 0 /\ w >= 1)
             => ValueOf(fo_return)
                   = ClampedTo(fo_requested + 1, fo_min, fo_max)
          /\ (e >= 1 \/ (e = 0 /\ w = 0))
             => ValueOf(fo_return)
                   = ClampedTo(fo_requested, fo_min, fo_max)

C15_Witness ==
    /\ FanoutReturned
    /\ fo_requested = 2
    /\ fo_min = 1
    /\ fo_max = 3
    /\ fo_prior_errors = 0
    /\ fo_prior_total = 2
    /\ fo_prior_result # None
    /\ ErrorsOf(ValueOf(fo_prior_result)) = 0
    /\ WarningsOf(ValueOf(fo_prior_result)) = 2
    /\ ValueOf(fo_return) = 3

\* C16: serial mode never adapts: the value returned is 1 whenever
\* requested <= 1, whatever the prior verdict, the prior failure count and
\* the limits; and a run with parallel_candidates = 1 dispatches exactly
\* one candidate in every iteration, inline, with the iteration's base
\* prompt as it is (no candidate-variation line).
C16_SerialNeverAdapts ==
    /\ (FanoutReturned /\ fo_requested <= 1) => ValueOf(fo_return) = 1
    /\ parallel_candidates = 1
       => /\ \A k \in DOMAIN dispatch_log : dispatch_log[k] = 1
          /\ futures = <<>>
          /\ current_prompt.variation = None
          /\ iteration >= 1
             => /\ Len(candidate_prompts) = 1
                /\ candidate_prompts[1].variation = None
                /\ pc \in {"inline", "collected", "check"}
                   => candidate_prompts[1] = current_prompt
          /\ Terminated => generate_calls = iteration

C16_Witness ==
    /\ pc = "inline"
    /\ parallel_candidates = 1
    /\ iteration = 3
    /\ dispatch_log = <<1, 1, 1>>
    /\ current_prompt.feedback # None
    /\ candidate_prompts = <<current_prompt>>

\* ======================================================================
\* Properties of validate_layout (specifications SpecValidate and
\* SpecValidateAndRun)
\* ======================================================================
ValidateReturned == vl_pc = "returned"
ViolationsOf(verdict) ==
    {verdict.violations[k] : k \in DOMAIN verdict.violations}
HasNoRoomsError(verdict) ==
    \E v \in ViolationsOf(verdict) :
        v.type = "ROOM_NOT_ENCLOSED" /\ v.severity = "error"

\* C17: the verdict of every validated layout has passed = TRUE exactly
\* when none of its violations has severity error (warnings alone do not
\* fail it), and its summary holds the number of error violations and the
\* number of warning violations of the list.
C17_PassedIffNoErrors ==
    ValidateReturned
    => LET verdict == ValueOf(vl_result)
       IN /\ verdict.passed = (ErrorsOf(verdict) = 0)
          /\ verdict.summary = <<ErrorsOf(verdict), WarningsOf(verdict)>>
          /\ ErrorsOf(verdict) + WarningsOf(verdict)
                = Len(verdict.violations)

C17_Witness ==
    /\ ValidateReturned
    /\ ValueOf(vl_result).passed
    /\ ValueOf(vl_result).summary = <<0, 3>>
    /\ \E v \in ViolationsOf(ValueOf(vl_result)) : v.type = "FIXTURE_OVERLAP"
    /\ \E v \in ViolationsOf(ValueOf(vl_result)) :
          v.type = "FIXTURE_OUTSIDE_ROOM"

\* C18: a layout without rooms is never accepted: its verdict holds a
\* ROOM_NOT_ENCLOSED error and has passed = FALSE, for a stand-alone
\* validation and for every candidate of a run, and no run returns
\* success = TRUE with a layout that has no rooms.
C18_NoRoomsNeverAccepted ==
    /\ (ValidateReturned /\ ValueOf(vl_layout).rooms = <<>>)
       => /\ HasNoRoomsError(ValueOf(vl_result))
          /\ ~ValueOf(vl_result).passed
    /\ \A n \in DOMAIN candidate_outcomes :
          candidate_outcomes[n].layout.content.rooms = <<>>
          => /\ HasNoRoomsError(candidate_outcomes[n].verdict)
             /\ ~candidate_outcomes[n].verdict.passed
    /\ (pc = "returned" /\ ValueOf(result).success)
       => ValueOf(ValueOf(result).layout).content.rooms # <<>>

C18_Witness ==
    /\ pc = "returned"
    /\ ValueOf(result).success
    /\ ValueOf(result).iterations_used = 2
    /\ selected_log[1].layout.content.rooms = <<>>
    /\ \E n \in DOMAIN candidate_outcomes :
          candidate_outcomes[n].layout.content.rooms = <<>>

\* the rooms named by the ROOM_OVERLAP errors of a verdict, as sets
OverlapsReported(verdict) ==
    {{v.affected_elements[k] : k \in DOMAIN v.affected_elements} :
        v \in {w \in ViolationsOf(verdict) :
                  w.type = "ROOM_OVERLAP" /\ w.severity = "error"}}
Reversed(seq) == [k \in DOMAIN seq |-> seq[Len(seq) + 1 - k]]

\* C19: for every two rooms of a validated layout whose own polygons are
\* valid, a ROOM_OVERLAP error naming both is reported exactly when the
\* intersection of their own polygons has an area above 10,000 mm2, and
\* the overlaps reported are the same when the rooms are listed in the
\* opposite order.
C19_OverlapIffOwnPolygonsIntersect ==
    ValidateReturned
    => LET layout == ValueOf(vl_layout)
           rooms == layout.rooms
           own(k) == room_polygon(rooms[k].boundary)
       IN /\ \A i \in DOMAIN rooms : \A j \in DOMAIN rooms :
                (i < j /\ own(i).kind = "rect" /\ own(j).kind = "rect")
                => (({rooms[i].name, rooms[j].name}
                        \in OverlapsReported(ValueOf(vl_result)))
                    <=> (area(intersection(own(i), own(j))) > 10000))
          /\ OverlapsReported(ValueOf(vl_result))
                = OverlapsReported(validate_layout(
                      [layout EXCEPT !.rooms = Reversed(rooms)]))

\* a layout of one rectangular room and nothing else but its perimeter
SingleRectangularRoom(layout) ==
    /\ Len(layout.rooms) = 1
    /\ room_polygon(layout.rooms[1].boundary).kind = "rect"
    /\ layout.interior_walls = <<>>
    /\ layout.doors = <<>>
    /\ layout.fixtures = <<>>
NarrowCorridor(room) ==
    /\ room.room_type \in {"corridor", "Corridor", "hallway", "Hallway",
                           "passage"}
    /\ LET p == room_polygon(room.boundary)
       IN p.x2 - p.x1 <= 900 \/ p.y2 - p.y1 <= 900
OverBudget(layout) ==
    /\ perimeter_bbox_area_mm2(layout) > 0
    /\ 100 * area(room_polygon(layout.rooms[1].boundary))
          > 105 * perimeter_bbox_area_mm2(layout)

IsCorridor(room) == Lower(room.room_type) \in {"corridor", "hallway", "passage"}
\* some stretch of the room's own polygon is less than 900 mm across
NarrowSomewhere(room) ==
    LET parts == PartsOf(room_polygon(room.boundary))
    IN \E k \in DOMAIN parts :
           parts[k].x2 - parts[k].x1 < 900 \/ parts[k].y2 - parts[k].y1 < 900
CorridorErrorsFor(verdict, name) ==
    {k \in DOMAIN verdict.violations :
        /\ verdict.violations[k].type = "CORRIDOR_TOO_NARROW"
        /\ verdict.violations[k].severity = "error"
        /\ verdict.violations[k].affected_elements = <<name>>}

\* C21: in the verdict of every validated layout, every room of type
\* corridor, hallway or passage whose polygon is less than 900 mm across
\* somewhere, even if the room is wider elsewhere, has exactly one
\* CORRIDOR_TOO_NARROW error naming it.
C21_NarrowAnywhereGetsOneError ==
    ValidateReturned
    => \A k \in DOMAIN ValueOf(vl_layout).rooms :
           LET room == ValueOf(vl_layout).rooms[k]
           IN (IsCorridor(room) /\ NarrowSomewhere(room))
              => Cardinality(CorridorErrorsFor(ValueOf(vl_result),
                                               room.name)) = 1

\* ---------------------------------------------------------------------
\* C22
\* ---------------------------------------------------------------------
HingedDoor(door) ==
    door.door_type \in {"single", "double"}
    /\ door.swing_direction \in {"left", "right"}
DoorErrors(verdict, door) ==
    {k \in DOMAIN verdict.violations :
        /\ verdict.violations[k].type = "DOOR_SWING_BLOCKED"
        /\ verdict.violations[k].affected_elements[1] = door.id}
\* the other walls, in the order of the wall index, and the fixtures whose
\* polygons share area with the door's swing sector
WallsInSwing(layout, door) ==
    LET walls == build_wall_index(layout)
        host == ValueOf(DictGet(walls, door.wall_id))
    IN SelectSeq(walls,
           LAMBDA e : e.key # door.wall_id
                      /\ SwingMeets(get_door_swing_arc(host, door),
                             wall_polygon(e.value.x1, e.value.y1,
                                          e.value.x2, e.value.y2,
                                          e.value.thickness_mm)))
FixturesInSwing(layout, door) ==
    LET host == ValueOf(DictGet(build_wall_index(layout), door.wall_id))
    IN SelectSeq(layout.fixtures,
           LAMBDA f : SwingMeets(get_door_swing_arc(host, door),
                                 fixture_polygon(f)))
OnKnownWall(layout, door) ==
    DictGet(build_wall_index(layout), door.wall_id) # None

\* C22: in the verdict of every validated layout no DOOR_SWING_BLOCKED
\* violation names a door whose door_type or swing_direction is sliding,
\* whatever wall it references; a hinged door on a known wall whose swing
\* sector shares area with another wall or with a fixture has exactly one
\* DOOR_SWING_BLOCKED error, which names the first such wall, and a
\* fixture only when no wall is in the swing.
C22_SlidingNeverHingedOnce ==
    ValidateReturned
    => \A k \in DOMAIN ValueOf(vl_layout).doors :
           LET layout == ValueOf(vl_layout)
               verdict == ValueOf(vl_result)
               door == layout.doors[k]
               errors == DoorErrors(verdict, door)
           IN /\ ~HingedDoor(door) => errors = {}
              /\ (HingedDoor(door) /\ OnKnownWall(layout, door)
                  /\ (WallsInSwing(layout, door) # <<>>
                      \/ FixturesInSwing(layout, door) # <<>>))
                 => /\ Cardinality(errors) = 1
                    /\ \A e \in errors :
                           /\ verdict.violations[e].severity = "error"
                           /\ verdict.violations[e].affected_elements[2]
                                = IF WallsInSwing(layout, door) # <<>>
                                  THEN WallsInSwing(layout, door)[1].key
                                  ELSE FixturesInSwing(layout, door)[1].id

\* a wall and a fixture are both in the swing of a hinged door, and the
\* one error names the wall; the sliding door beside it has none
C22_Witness ==
    /\ ValidateReturned
    /\ Len(ValueOf(vl_layout).doors) = 2
    /\ LET layout == ValueOf(vl_layout)
           verdict == ValueOf(vl_result)
       IN /\ ~HingedDoor(layout.doors[1])
          /\ DoorErrors(verdict, layout.doors[1]) = {}
          /\ HingedDoor(layout.doors[2])
          /\ WallsInSwing(layout, layout.doors[2]) # <<>>
          /\ FixturesInSwing(layout, layout.doors[2]) # <<>>
          /\ \E e \in DoorErrors(verdict, layout.doors[2]) :
                 verdict.violations[e].affected_elements = <<"d_2", "iw_2">>

\* ---------------------------------------------------------------------
\* C23
\* ---------------------------------------------------------------------
\* C23: validate_layout never raises on perimeter-wall entries whose
\* thickness, coordinates, id or material are missing, zero, not numbers
\* or otherwise malformed: every validation returns a verdict, in which
\* such fields have been replaced by safe defaults (a positive thickness
\* for every wall of the index).
C23_MalformedPerimeterNeverRaises ==
    /\ vl_pc # "raised"
    /\ ValidateReturned
       => LET walls == build_wall_index(ValueOf(vl_layout))
          IN \A k \in DOMAIN walls : walls[k].value.thickness_mm > 0

\* ---------------------------------------------------------------------
\* C24
\* ---------------------------------------------------------------------
\* C24: snapping is idempotent: for every layout and every pitch g > 0,
\* snapping the snapped layout again with g gives the snapped layout
\* itself, in every field, the recomputed room areas included.
C24_SnappingIsIdempotent ==
    sn_pc = "snapped_twice" => sn_twice = sn_once

\* a layout that snapping changed (a collapsed fixture, a moved wall) has
\* been snapped a second time
C24_Witness ==
    /\ sn_pc = "snapped_twice"
    /\ sn_grid = 50
    /\ ValueOf(sn_once).fixtures # ValueOf(sn_layout).fixtures
    /\ ValueOf(sn_once).rooms[1].boundary # ValueOf(sn_layout).rooms[1].boundary
    /\ ValueOf(sn_once).rooms[1].area_sqm = 2 * 50 * 100
    /\ ValueOf(sn_twice).rooms[1].area_sqm = 2 * 50 * 100

\* ---------------------------------------------------------------------
\* C25
\* ---------------------------------------------------------------------
Snapped == sn_pc \in {"snapped", "snapped_twice"}
\* the multiple of g nearest to a length, a length exactly half-way between
\* two multiples going to the one further from zero
NearestMultiple(value, g) ==
    LET a == Abs(value[1])
        lower == (a \div g) * g
        upper == lower + g
        \* a float just short of a half-way point is nearer to the lower one
        up == IF value[2] = 0 THEN 2 * (a - lower) >= g
              ELSE 2 * (a - lower) > g
    IN Sign(value[1]) * (IF up THEN upper ELSE lower)
\* every coordinate-like field as given and as returned
CoordinatePairs(given, returned) ==
    UNION {{<<given.interior_walls[k].x1, returned.interior_walls[k].x1>>,
            <<given.interior_walls[k].y1, returned.interior_walls[k].y1>>,
            <<given.interior_walls[k].x2, returned.interior_walls[k].x2>>,
            <<given.interior_walls[k].y2, returned.interior_walls[k].y2>>} :
              k \in DOMAIN given.interior_walls}
    \cup UNION {{<<given.fixtures[k].center_x, returned.fixtures[k].center_x>>,
                 <<given.fixtures[k].center_y, returned.fixtures[k].center_y>>,
                 <<given.fixtures[k].width_mm, returned.fixtures[k].width_mm>>,
                 <<given.fixtures[k].depth_mm, returned.fixtures[k].depth_mm>>} :
                   k \in DOMAIN given.fixtures}
    \cup UNION {UNION {{<<given.rooms[k].boundary[j][1],
                          returned.rooms[k].boundary[j][1]>>,
                        <<given.rooms[k].boundary[j][2],
                          returned.rooms[k].boundary[j][2]>>} :
                          j \in DOMAIN given.rooms[k].boundary} :
                   k \in DOMAIN given.rooms}
    \cup UNION {{<<given.perimeter_walls[k][f].v,
                   returned.perimeter_walls[k][f].v>> :
                    f \in {c \in {"x1", "y1", "x2", "y2"} :
                              given.perimeter_walls[k][c].kind = "num"}} :
                   k \in DOMAIN given.perimeter_walls}
    \cup {<<given.page_dimensions_mm[1], returned.page_dimensions_mm[1]>>,
          <<given.page_dimensions_mm[2], returned.page_dimensions_mm[2]>>}

\* C25: for every pitch g > 0, every coordinate-like field of the snapped
\* layout (wall end points, fixture centres and sizes, room ring points,
\* numeric perimeter-wall coordinates, page dimensions) is an exact
\* multiple of g and is the multiple of g nearest to the value given, a
\* value exactly half-way between two multiples going away from zero.
C25_SnapsToNearestMultiple ==
    Snapped
    => \A pair \in CoordinatePairs(ValueOf(sn_layout), ValueOf(sn_once)) :
           /\ pair[2][2] = 0
           /\ pair[2][1] % sn_grid = 0
           /\ pair[2][1] = NearestMultiple(pair[1], sn_grid)

\* ---------------------------------------------------------------------
\* C26
\* ---------------------------------------------------------------------
\* what the layout models demand of the fields the snapper rewrites
LayoutInvariant(layout) ==
    /\ \A k \in DOMAIN layout.rooms :
           /\ layout.rooms[k].boundary[1]
                = layout.rooms[k].boundary[Len(layout.rooms[k].boundary)]
           /\ layout.rooms[k].area_sqm > 0
    /\ \A k \in DOMAIN layout.fixtures :
           /\ layout.fixtures[k].width_mm[1] > 0
           /\ layout.fixtures[k].depth_mm[1] > 0
    /\ layout.page_dimensions_mm[1][1] > 0
    /\ layout.page_dimensions_mm[2][1] > 0

\* C26: for every layout that has every room ring closed, every fixture
\* width and depth positive, every room area positive and both page
\* dimensions positive, and every pitch g > 0, the snapped layout has them
\* too.
C26_SnappingKeepsLayoutInvariant ==
    (Snapped /\ LayoutInvariant(ValueOf(sn_layout)))
    => LayoutInvariant(ValueOf(sn_once))

\* ---------------------------------------------------------------------
\* C27
\* ---------------------------------------------------------------------
OutcomeSuccess ==
    /\ pc = "returned"
    /\ ValueOf(result).success
    /\ selected_log[Len(selected_log)].verdict.passed
OutcomeExhausted ==
    /\ pc = "returned"
    /\ ~ValueOf(result).success
    /\ ValueOf(result).iterations_used = max_iterations
    /\ iteration = max_iterations
OutcomeAllFailed ==
    /\ pc = "raised"
    /\ ValueOf(raised).type = "RuntimeError"
    /\ collect_log[iteration].ok = 0
OneOfThreeOutcomes ==
    Cardinality({o \in {"success", "exhausted", "all_failed"} :
                    \/ o = "success" /\ OutcomeSuccess
                    \/ o = "exhausted" /\ OutcomeExhausted
                    \/ o = "all_failed" /\ OutcomeAllFailed}) = 1

\* C27 (as stated): when every candidate call returns or raises, every run
\* with max_iterations >= 1 comes to an end, after at most max_iterations
\* iterations, as a success, as an exhaustion, or as the error raised
\* because all candidates of an iteration failed.
C27_TerminatesInThreeOutcomes ==
    /\ (max_iterations >= 1) ~> Terminated
    /\ []((max_iterations >= 1 /\ Terminated)
          => (iteration <= max_iterations /\ OneOfThreeOutcomes))

\* C27 (amended): when every candidate call returns or raises, every run
\* comes to an end after at most max_iterations iterations: with
\* max_iterations, parallel_candidates and max_workers all at least 1 as a
\* success, as an exhaustion, or as the error raised because all
\* candidates of an iteration failed, and otherwise as a ValueError raised
\* before the first iteration.
C27_TerminatesInThreeOutcomesOrBadArgs ==
    /\ <>Terminated
    /\ []((ArgsValid /\ Terminated)
          => (iteration <= max_iterations /\ OneOfThreeOutcomes))
    /\ []((~ArgsValid /\ Terminated)
          => /\ pc = "raised"
             /\ ValueOf(raised).type = "ValueError"
             /\ iteration = 0)

\* a run of three iterations at most that ends in its second one, where
\* all candidates failed, after a first one whose best verdict failed
C27_Witness ==
    /\ ArgsValid
    /\ max_iterations = 3
    /\ iteration = 2
    /\ OutcomeAllFailed
    /\ ~selected_log[1].verdict.passed

\* ---------------------------------------------------------------------
\* C28
\* ---------------------------------------------------------------------
\* C28: in every run, whose verdicts come from validate_layout, the number
\* of candidates dispatched never goes up from one iteration to the next
\* and stays 1 once it is 1; whenever the loop computes a further fan-out
\* the prior verdict has an error, so the branch that adds a candidate
\* after a warnings-only verdict is not taken.
C28_DispatchNeverIncreases ==
    /\ \A k \in 1..(Len(dispatch_log) - 1) :
           /\ dispatch_log[k + 1] <= dispatch_log[k]
           /\ dispatch_log[k] = 1 => dispatch_log[k + 1] = 1
    /\ (pc = "loop" /\ prior_constraint_result # None)
       => ErrorsOf(ValueOf(prior_constraint_result)) > 0
    /\ \A k \in DOMAIN selected_log :
           (selected_log[k].verdict.passed
            <=> ErrorsOf(selected_log[k].verdict) = 0)
           /\ (selected_log[k].verdict.passed => k = Len(selected_log))

\* three iterations: two candidates, one of which failed at the provider,
\* then one candidate, and one again
C28_Witness ==
    /\ dispatch_log = <<2, 1, 1>>
    /\ collect_log[1].ok = 1
    /\ Terminated

\* ======================================================================
\* Properties of run_job and the job lifecycle (specification SpecJobs)
\* ======================================================================
\* the run_job call r was made in this step
RunStarts(r) == r \notin DOMAIN runs /\ r \in DOMAIN runs'
\* the run_job call r leaves its handler's outcome behind in this step
RunEnds(r) == r \in DOMAIN runs /\ runs[r].pc = "handled" /\ runs'[r].pc # "handled"

\* the row of the job a run works on, after the step
RowAfter(r) == jobs'[runs[r].job_id]

\* a call for an unknown id has returned with the table untouched; a call for
\* an existing job has loaded it
StartsRight(r) ==
    IF runs'[r].job_id \in DOMAIN jobs
    THEN runs'[r].pc = "loaded" /\ jobs' = jobs
    ELSE runs'[r].pc = "returned" /\ jobs' = jobs

\* the handler starts only in a run that has marked the job running, and
\* that mark has written "running"
MarksBeforeWork(r) ==
    /\ (runs[r].pc # "handled" /\ runs'[r].pc = "handled")
          => runs[r].pc = "marked"
    /\ (runs[r].pc # "marked" /\ runs'[r].pc = "marked")
          => runs[r].pc = "loaded" /\ RowAfter(r).status = "running"

\* the run returns, with the outcome of its handler in the job's row
EndsRight(r) ==
    LET outcome == ValueOf(runs[r].outcome)
    IN /\ runs'[r].pc = "returned"
       /\ outcome.kind = "returns" =>
             /\ RowAfter(r).status = "succeeded"
             /\ RowAfter(r).result_ref = Some(outcome.result_ref)
       /\ outcome.kind = "raises" =>
             /\ RowAfter(r).status = "failed"
             /\ RowAfter(r).error_message = Some(format_error(outcome))

TerminalStatuses == {"succeeded", "failed"}

\* C30: the job lifecycle only moves forward: a job is created queued, a
\* job becomes running only from queued, and once a job's status is
\* succeeded or failed no later call to mark_job_running,
\* mark_job_succeeded, mark_job_failed or run_job changes its status.
C30_LifecycleOnlyMovesForward ==
    [][/\ \A j \in DOMAIN jobs' :
             j \notin DOMAIN jobs => jobs'[j].status = "queued"
       /\ \A j \in DOMAIN jobs :
             /\ (jobs[j].status # "running" /\ jobs'[j].status = "running")
                   => jobs[j].status = "queued"
             /\ jobs[j].status \in TerminalStatuses
                   => jobs'[j].status = jobs[j].status]_vars

====
